---------------------------- MODULE Spec2Model ----------------------------
(***************************************************************************)
(* Model of the hierarchical content store and link index of the Note      *)
(* application (src-tauri/src/services).                                    *)
(*                                                                         *)
(* The store is the SQLite schema of services/database/schema.rs: a nodes  *)
(* table keyed by id and a node_links table keyed by the ordered pair      *)
(* (source_node_id, target_node_id), both with ON DELETE CASCADE foreign   *)
(* keys.  The operations are those of services/database/nodes.rs and of    *)
(* services/link_service.rs, each translated statement by statement.       *)
(*                                                                         *)
(* Conventions:                                                            *)
(*  - text is a sequence of one-character strings;                          *)
(*  - an Option<T> is <<>> (None) or <<v>> (Some(v)); a nullable column is  *)
(*    stored the same way;                                                 *)
(*  - a node id is the number of the call of generate_id() that produced   *)
(*    it; ids are never issued twice, so the id order is also the rowid    *)
(*    order of the nodes table;                                            *)
(*  - Utc::now() is a clock that is strictly later at every write.         *)
(***************************************************************************)
EXTENDS Naturals, Sequences, FiniteSets

VARIABLES
    nodes,        \* the nodes table: id -> row
    node_links,   \* the node_links table: a set of <<source, target>>
    issued,       \* number of ids generate_id() has handed to stored rows
    clock,        \* the latest timestamp Utc::now() has returned to a write
    synced,       \* per stored node, the targets that its last committed
                  \* resynchronization resolved (none before the first one)
    callers,      \* per caller of get_or_create_daily_note, where the call
                  \* stands: the date and what its lookup returned
    connection_pool,  \* the number of connections in the Vec of the pool
    me,           \* one thread calling with_connection: where its call
                  \* stands and what its last call returned
    others,       \* the other threads inside a call of with_connection:
                  \* how many of them stand at each place of the call
    tables,       \* the tables that exist in the database file
    users,        \* the users table: the ids of its rows
    update_tx,    \* the open transaction of an update_node call, if any
    delete_calls, \* the chain of delete_node calls that is running, if
                  \* any, outermost first
    commands,     \* per caller of the update_node command, the node value
                  \* its repository update returned and that it has not
                  \* resynchronized yet, if any
    connection,   \* the Mutex<Connection> of the page and block service:
                  \* the thread that holds its lock, whether it is
                  \* poisoned, and the rows of pages and blocks
    page_calls    \* per thread, where its call of the page and block
                  \* service stands

storeVars == <<nodes, node_links, issued, clock, synced, callers>>
poolVars == <<connection_pool, me, others>>
bootVars == <<tables, users>>
txVars == <<update_tx, delete_calls>>
cmdVars == <<commands>>
pageVars == <<connection, page_calls>>
auxVars == <<poolVars, bootVars, txVars, cmdVars, pageVars>>
nonPoolVars == <<storeVars, bootVars, txVars, cmdVars, pageVars>>

vars == <<storeVars, auxVars>>

-----------------------------------------------------------------------------
(* Bounds of the model. *)

MaxNodes == 3
MaxRewrites == 1
NumCallers == 2

\* The pool timeout, in sleeps of the acquisition loop: an acquisition
\* gives up once more than MaxSleeps sleeps have gone by.  The source has
\* a timeout of 10 s and sleeps of 10 ms.
MaxSleeps == 1

-----------------------------------------------------------------------------
(* Option values. *)

None == <<>>
Some(v) == <<v>>
Unwrap(o) == o[1]

-----------------------------------------------------------------------------
(* Text. *)

NL == "\n"

\* ASCII case folding, as SQLite's LIKE compares.
Fold(c) ==
    CASE c = "P" -> "p"
      [] c = "M" -> "m"
      [] c = "X" -> "x"
      [] c = "D" -> "d"
      [] c = "N" -> "n"
      [] OTHER -> c

\* Positions k >= j at which "]]" closes a reference opened before j:
\* the regex (.*?)\]\] takes the first one, and '.' matches no line break.
CloseAt(s, j) ==
    { k \in j..(Len(s) - 1) :
        /\ s[k] = "]"
        /\ s[k + 1] = "]"
        /\ \A m \in j..(k - 1) : s[m] # NL }

MinOf(S) == CHOOSE x \in S : \A y \in S : x <= y

\* captures_iter of \[\[(.*?)\]\] over s from position i: the captured
\* texts of the leftmost non-overlapping matches, in order.
RECURSIVE CapturesFrom(_, _)
CapturesFrom(s, i) ==
    IF i + 3 > Len(s) THEN <<>>
    ELSE IF s[i] = "[" /\ s[i + 1] = "[" /\ CloseAt(s, i + 2) # {}
         THEN LET k == MinOf(CloseAt(s, i + 2))
              IN  <<SubSeq(s, i + 2, k - 1)>> \o CapturesFrom(s, k + 2)
         ELSE CapturesFrom(s, i + 1)

LinkTexts(content) == CapturesFrom(content, 1)

\* SQLite's LIKE: '%' matches any run of characters, '_' any one
\* character, every other character itself up to ASCII case.
RECURSIVE Like(_, _)
Like(str, pat) ==
    IF pat = <<>> THEN str = <<>>
    ELSE IF Head(pat) = "%"
         THEN \/ Like(str, Tail(pat))
              \/ (str # <<>> /\ Like(Tail(str), pat))
         ELSE /\ str # <<>>
              /\ (Head(pat) = "_" \/ Fold(Head(pat)) = Fold(Head(str)))
              /\ Like(Tail(str), Tail(pat))

-----------------------------------------------------------------------------
(* The nodes table and its queries. *)

Ids(tbl) == DOMAIN tbl

\* serde_json::to_string of a map: the members of a JSON object, one per
\* entry of the map, in the order the map iterates.
RECURSIVE ToJsonObject(_)
ToJsonObject(map) ==
    IF map = {} THEN <<>>
    ELSE LET e == CHOOSE x \in map : TRUE
         IN  <<e>> \o ToJsonObject(map \ {e})

\* A read that takes the default, the empty map, whatever the text.
DefaultMap(text) == {}

\* serde_json::from_str into a map: the entries the members give.
FromJsonObject(text) == { text[i] : i \in 1..Len(text) }

\* serde_json::to_string of a list of strings: a JSON array of quoted
\* strings, in the order of the list.
ToJsonArray(list) == [ i \in 1..Len(list) |-> <<"\"", list[i], "\"">> ]

\* serde_json::from_str into a list of strings.
FromJsonArray(text) == [ i \in 1..Len(text) |-> text[i][2] ]

DEFAULT_USER == "default_user"

NewRow(content, parent_id, order, properties, tags, now) ==
    [ content     |-> content,
      parent_id   |-> parent_id,
      order_index |-> order,
      properties  |-> properties,
      tags        |-> tags,
      created_at  |-> now,
      updated_at  |-> now,
      created_by  |-> DEFAULT_USER,
      version     |-> 1 ]

\* A table without the foreign key on parent_id.
NoForeignKey(tbl, parent_id) == TRUE

\* FOREIGN KEY (parent_id) REFERENCES nodes(id): NULL or an existing row.
ParentOk(tbl, parent_id) == parent_id = None \/ Unwrap(parent_id) \in Ids(tbl)

\* A query that leaves out the comparison with the bound id: every row
\* that has a parent.
AllChildRows(tbl, id) == { c \in Ids(tbl) : tbl[c].parent_id # None }

\* SELECT id FROM nodes WHERE parent_id = ? (rows come back in rowid order)
ChildIds(tbl, id) == { c \in Ids(tbl) : tbl[c].parent_id = Some(id) }

RECURSIVE SortedSeq(_)
SortedSeq(S) ==
    IF S = {} THEN <<>>
    ELSE LET m == MinOf(S) IN <<m>> \o SortedSeq(S \ {m})

\* SELECT id FROM nodes WHERE parent_id = ? ORDER BY order_index
RECURSIVE OrderedBy(_, _)
OrderedBy(tbl, S) ==
    IF S = {} THEN <<>>
    ELSE LET m == CHOOSE x \in S : \A y \in S :
                     \/ tbl[x].order_index < tbl[y].order_index
                     \/ (tbl[x].order_index = tbl[y].order_index /\ x <= y)
         IN  <<m>> \o OrderedBy(tbl, S \ {m})

OkKind == "Ok"
QueryFailed == "DatabaseQueryFailed"
NoReturn == "NoReturn"

\* The Node get_node builds from a row: the columns, with properties and
\* tags parsed from their JSON text, and the ids of the children.
NodeOf(tbl, id) ==
    [ id         |-> id,
      content    |-> tbl[id].content,
      parent_id  |-> tbl[id].parent_id,
      order      |-> tbl[id].order_index,
      properties |-> FromJsonObject(tbl[id].properties),
      tags       |-> FromJsonArray(tbl[id].tags),
      created_at |-> tbl[id].created_at,
      updated_at |-> tbl[id].updated_at,
      created_by |-> tbl[id].created_by,
      version    |-> tbl[id].version,
      children   |-> OrderedBy(tbl, ChildIds(tbl, id)) ]

\* get_node: the Node of the row, or the query error of fetch_one on no
\* row.
GetNode(tbl, id) ==
    IF id \in Ids(tbl)
    THEN [ kind |-> OkKind, id |-> id, node |-> NodeOf(tbl, id) ]
    ELSE [ kind |-> QueryFailed, id |-> id ]


\* The node a call chain of get_node_with_children never returns.
Diverged == [ diverged |-> TRUE ]

\* get_node_with_children: the Node of get_node and, for each row that
\* get_child_nodes finds under it, in ORDER BY order_index, the result of
\* get_node_with_children on that row.  The call chain has no end when it
\* comes back to an id it is already reading.
RECURSIVE NodeWithChildren(_, _, _)
NodeWithChildren(tbl, id, stack) ==
    IF id \in stack THEN Diverged
    ELSE LET kids == OrderedBy(tbl, ChildIds(tbl, id))
             subs == [ i \in 1..Len(kids) |->
                         NodeWithChildren(tbl, kids[i], stack \cup {id}) ]
         IN  IF \E i \in 1..Len(kids) : subs[i].diverged THEN Diverged
             ELSE [ diverged |-> FALSE, node |-> NodeOf(tbl, id),
                    child_nodes |-> subs ]

get_node_with_children(tbl, node_id) ==
    IF node_id \notin Ids(tbl) THEN [ kind |-> QueryFailed ]
    ELSE LET t == NodeWithChildren(tbl, node_id, {})
         IN  IF t.diverged THEN [ kind |-> NoReturn ]
             ELSE [ kind |-> OkKind, tree |-> t ]

\* SELECT ... FROM nodes WHERE parent_id IS NULL
RootIds(tbl) == { n \in Ids(tbl) : tbl[n].parent_id = None }

\* The order of the rows of a query without ORDER BY is the order in which
\* the engine visits them: by rowid when it scans the table or the index on
\* parent_id, by order_index when it scans the index on
\* (parent_id, order_index).
ScanChoices == { "rowid", "order_index" }

ScanOrder(tbl, S, scan) ==
    IF scan = "rowid" THEN SortedSeq(S) ELSE OrderedBy(tbl, S)

\* get_root_nodes: the rows without parent in ORDER BY order_index, each
\* with the ids of its children as the query without ORDER BY returns them.
get_root_nodes(tbl, scan) ==
    LET ids == OrderedBy(tbl, RootIds(tbl))
    IN  [ i \in 1..Len(ids) |->
            [ NodeOf(tbl, ids[i]) EXCEPT
                !.children = ScanOrder(tbl, ChildIds(tbl, ids[i]), scan) ] ]

-----------------------------------------------------------------------------
(* The node_links table and link resolution. *)

OutEdges(links, id) == { e \in links : e[1] = id }
InEdges(links, id) == { e \in links : e[2] = id }

\* The rows matched by: content = ?1 OR content LIKE ?2, with ?1 the
\* reference text and ?2 the reference text followed by '%'.
Matches(tbl, text) ==
    { n \in Ids(tbl) :
        \/ tbl[n].content = text
        \/ Like(tbl[n].content, text \o <<"%">>) }

\* A resolution that takes the first row of the table, matching or not.
FirstRow(tbl, text) ==
    IF Ids(tbl) = {} THEN None ELSE Some(MinOf(Ids(tbl)))

\* SELECT id FROM nodes WHERE content = ? OR content LIKE ? LIMIT 1:
\* the table is scanned in rowid order and the first matching row wins.
FindTarget(tbl, text) ==
    LET found == Matches(tbl, text)
    IN  IF found = {} THEN None ELSE Some(MinOf(found))

\* An INSERT that stores nothing.
SkipInsert(tbl, links, source, target) == [ ok |-> TRUE, links |-> links ]

\* A plain INSERT: a row that is already there violates the primary key
\* and fails the statement.
PlainInsert(tbl, links, source, target) ==
    IF source \notin Ids(tbl) \/ target \notin Ids(tbl) \/ <<source, target>> \in links
    THEN [ ok |-> FALSE, links |-> links ]
    ELSE [ ok |-> TRUE, links |-> links \cup {<<source, target>>} ]

\* An INSERT on a connection that does not enforce foreign keys.
InsertUnchecked(tbl, links, source, target) ==
    [ ok |-> TRUE, links |-> links \cup {<<source, target>>} ]

\* INSERT OR IGNORE INTO node_links: a row that is already there is
\* skipped; a source that is no row of nodes violates the foreign key and
\* fails the statement.
InsertOrIgnore(tbl, links, source, target) ==
    IF source \notin Ids(tbl) \/ target \notin Ids(tbl)
    THEN [ ok |-> FALSE, links |-> links ]
    ELSE [ ok |-> TRUE, links |-> links \cup {<<source, target>>} ]

\* The loop over the reference texts: each text that resolves inserts one
\* edge, a text that resolves to nothing is skipped, and the first failing
\* statement ends the loop with its error.
RECURSIVE InsertLinks(_, _, _, _, _)
InsertLinks(tbl, links, source, texts, i) ==
    IF i > Len(texts) THEN [ ok |-> TRUE, links |-> links ]
    ELSE LET target == FindTarget(tbl, texts[i])
         IN  IF target = None
             THEN InsertLinks(tbl, links, source, texts, i + 1)
             ELSE LET r == InsertOrIgnore(tbl, links, source, Unwrap(target))
                  IN  IF r.ok
                      THEN InsertLinks(tbl, r.links, source, texts, i + 1)
                      ELSE r

\* A DELETE that removes nothing: the edges of the source are kept.
KeepOutEdges(links, source) == links

\* DELETE FROM node_links WHERE source_node_id = ?
DeleteOutEdges(links, source) == links \ OutEdges(links, source)

\* A transaction that stops after its DELETE.
ClearOnly(tbl, links, id, content) ==
    [ ok |-> TRUE, links |-> DeleteOutEdges(links, id) ]

\* The body of the transaction of update_links_for_node.
LinkTransaction(tbl, links, id, content) ==
    InsertLinks(tbl, DeleteOutEdges(links, id), id, LinkTexts(content), 1)

\* The nodes that the reference texts of a content resolve to.
ResolvedTargets(tbl, content) ==
    LET texts == LinkTexts(content)
        found == [ i \in 1..Len(texts) |-> FindTarget(tbl, texts[i]) ]
    IN  { Unwrap(found[i]) : i \in { j \in 1..Len(texts) : found[j] # None } }

\* get_linked_references: the rows of nodes joined to the edges that
\* target node_id.
GetLinkedReferences(tbl, links, node_id) ==
    { e[1] : e \in { x \in InEdges(links, node_id) : x[1] \in Ids(tbl) } }

\* The rows of node_links in the order of their primary key.
RECURSIVE EdgeRows(_)
EdgeRows(links) ==
    IF links = {} THEN <<>>
    ELSE LET e == CHOOSE x \in links :
                      \A y \in links : x[1] < y[1] \/ (x[1] = y[1] /\ x[2] <= y[2])
         IN  <<e>> \o EdgeRows(links \ {e})

\* The Node the link service builds from a row: the columns, and no
\* children.
LinkNode(tbl, id) == [ NodeOf(tbl, id) EXCEPT !.children = <<>> ]

\* A join on the target of the edge row.
JoinTarget(tbl, e) == IF e[2] \in Ids(tbl) THEN <<e[2]>> ELSE <<>>

\* nodes n JOIN node_links l ON n.id = l.source_node_id: the id of the
\* nodes row that is joined to an edge row, if there is one.
JoinSource(tbl, e) == IF e[1] \in Ids(tbl) THEN <<e[1]>> ELSE <<>>

RECURSIVE JoinedRows(_, _, _)
JoinedRows(tbl, rows, i) ==
    IF i > Len(rows) THEN <<>>
    ELSE JoinSource(tbl, rows[i]) \o JoinedRows(tbl, rows, i + 1)

\* get_linked_references: one Node per row of the join whose edge targets
\* node_id.
get_linked_references(tbl, links, node_id) ==
    LET rows == SelectSeq(EdgeRows(links), LAMBDA e : e[2] = node_id)
        ids  == JoinedRows(tbl, rows, 1)
    IN  [ kind |-> OkKind,
          nodes |-> [ i \in 1..Len(ids) |-> LinkNode(tbl, ids[i]) ] ]

\* get_unlinked_references: one Node per row whose content is LIKE the
\* probe text between two '%', in rowid order; the node id is not used.
get_unlinked_references(tbl, node_id, node_content) ==
    LET pattern == <<"%">> \o node_content \o <<"%">>
        ids == SortedSeq({ n \in Ids(tbl) : Like(tbl[n].content, pattern) })
    IN  [ kind |-> OkKind,
          nodes |-> [ i \in 1..Len(ids) |-> LinkNode(tbl, ids[i]) ] ]

-----------------------------------------------------------------------------
(* Deletion. *)

\* The rows an ON DELETE CASCADE on parent_id removes with the rows of S.
RECURSIVE CascadeClosure(_, _)
CascadeClosure(tbl, S) ==
    LET more == { c \in Ids(tbl) : tbl[c].parent_id # None
                                   /\ Unwrap(tbl[c].parent_id) \in S }
    IN  IF more \subseteq S THEN S ELSE CascadeClosure(tbl, S \cup more)

Restrict(tbl, S) == [ n \in S |-> tbl[n] ]

\* DELETE FROM nodes WHERE id = ?, with the cascades of the schema: the
\* rows below it and every edge with a removed row as source or target.
SqlDeleteNode(db, id) ==
    IF id \notin Ids(db.nodes) THEN db
    ELSE LET gone == CascadeClosure(db.nodes, {id})
         IN  [ db EXCEPT
                 !.nodes = Restrict(db.nodes, Ids(db.nodes) \ gone),
                 !.links = { e \in db.links : e[1] \notin gone /\ e[2] \notin gone } ]

\* delete_node: the children are read first, delete_node runs on each of
\* them (each call commits its own transaction), then the row itself is
\* deleted.  A call on an id that is already being deleted further up the
\* call chain repeats that chain without end: the call never returns.
RECURSIVE DeleteRec(_, _, _)
RECURSIVE DeleteChildren(_, _, _, _)
DeleteRec(db, id, stack) ==
    IF id \in stack THEN [ db EXCEPT !.diverged = TRUE ]
    ELSE LET kids  == SortedSeq(ChildIds(db.nodes, id))
             below == DeleteChildren(db, kids, 1, stack \cup {id})
         IN  IF below.diverged THEN below ELSE SqlDeleteNode(below, id)

DeleteChildren(db, kids, i, stack) ==
    IF i > Len(kids) \/ db.diverged THEN db
    ELSE DeleteChildren(DeleteRec(db, kids[i], stack), kids, i + 1, stack)

-----------------------------------------------------------------------------
(* The operations of the node repository and of the link service, each as  *)
(* the result it returns and the tables it leaves.                         *)

CreateNodeRequest(content, parent_id, order, properties, tags) ==
    [ content |-> content, parent_id |-> parent_id, order |-> order,
      properties |-> properties, tags |-> tags ]

\* create_node: order 0 unless given, empty properties and tags unless
\* given; one INSERT, which the foreign key on parent_id fails for a
\* parent that is no row; then get_node of the new id.
create_node(tbl, node_id, now, request) ==
    LET row == NewRow(request.content, request.parent_id,
                      IF request.order = None THEN 0 ELSE Unwrap(request.order),
                      ToJsonObject(IF request.properties = None THEN {}
                                   ELSE Unwrap(request.properties)),
                      ToJsonArray(IF request.tags = None THEN <<>>
                                  ELSE Unwrap(request.tags)),
                      now)
        stored == [ n \in Ids(tbl) \cup {node_id} |->
                      IF n = node_id THEN row ELSE tbl[n] ]
    IN  IF ParentOk(tbl, request.parent_id)
        THEN [ kind |-> OkKind, id |-> node_id, nodes |-> stored,
               node |-> NodeOf(stored, node_id) ]
        ELSE [ kind |-> QueryFailed, id |-> node_id, nodes |-> tbl ]

\* An UpdateNodeRequest with no field present.
EmptyRequest ==
    [ content |-> None, parent_id |-> None, order |-> None,
      properties |-> None, tags |-> None ]

IsEmptyRequest(request) ==
    /\ request.content = None
    /\ request.parent_id = None
    /\ request.order = None
    /\ request.properties = None
    /\ request.tags = None

\* An update that writes every column of the request, an absent order as
\* the default 0.
ApplyAllFields(row, request, now) ==
    [ row EXCEPT
        !.content     = IF request.content = None THEN @ ELSE Unwrap(request.content),
        !.parent_id   = IF request.parent_id = None THEN @ ELSE request.parent_id,
        !.order_index = IF request.order = None THEN 0 ELSE Unwrap(request.order),
        !.properties  = IF request.properties = None THEN @
                        ELSE ToJsonObject(Unwrap(request.properties)),
        !.tags        = IF request.tags = None THEN @
                        ELSE ToJsonArray(Unwrap(request.tags)),
        !.updated_at  = now,
        !.version     = @ + 1 ]

\* The UPDATE statements update_node issues for the fields present, each
\* also rewriting updated_at, and the version increment that follows them.
ApplyRequest(row, request, now) ==
    [ row EXCEPT
        !.content     = IF request.content = None THEN @ ELSE Unwrap(request.content),
        !.parent_id   = IF request.parent_id = None THEN @ ELSE request.parent_id,
        !.order_index = IF request.order = None THEN @ ELSE Unwrap(request.order),
        !.properties  = IF request.properties = None THEN @
                        ELSE ToJsonObject(Unwrap(request.properties)),
        !.tags        = IF request.tags = None THEN @
                        ELSE ToJsonArray(Unwrap(request.tags)),
        !.updated_at  = now,
        !.version     = @ + 1 ]

\* The statements of update_node in the order of the code: one UPDATE per
\* field of the request, then the UPDATE of the version.
UpdateStatements ==
    << "content", "parent_id", "order", "properties", "tags", "version" >>

\* A statement is executed when its field is present; the version
\* statement, when some field is present.
Present(request, k) ==
    CASE k = 1 -> request.content # None
      [] k = 2 -> request.parent_id # None
      [] k = 3 -> request.order # None
      [] k = 4 -> request.properties # None
      [] k = 5 -> request.tags # None
      [] OTHER -> ~IsEmptyRequest(request)

\* The first statement from position k on that is executed, or one past
\* the last statement.
RECURSIVE NextStatement(_, _)
NextStatement(request, k) ==
    IF k > Len(UpdateStatements) \/ Present(request, k) THEN k
    ELSE NextStatement(request, k + 1)

\* What one UPDATE of update_node writes to the row.
SetField(row, field, request, now) ==
    CASE field = "content" ->
           [ row EXCEPT !.content = Unwrap(request.content), !.updated_at = now ]
      [] field = "parent_id" ->
           [ row EXCEPT !.parent_id = request.parent_id, !.updated_at = now ]
      [] field = "order" ->
           [ row EXCEPT !.order_index = Unwrap(request.order), !.updated_at = now ]
      [] field = "properties" ->
           [ row EXCEPT !.properties = ToJsonObject(Unwrap(request.properties)),
                        !.updated_at = now ]
      [] field = "tags" ->
           [ row EXCEPT !.tags = ToJsonArray(Unwrap(request.tags)),
                        !.updated_at = now ]
      [] OTHER -> [ row EXCEPT !.version = @ + 1 ]

\* The statement on the tables `from`: no row matched writes nothing, a
\* parent that is no row fails the statement.
Written(from, node_id, field, request, now) ==
    IF node_id \notin Ids(from) THEN [ ok |-> TRUE, nodes |-> from ]
    ELSE IF field = "parent_id" /\ ~ParentOk(from, request.parent_id)
    THEN [ ok |-> FALSE, nodes |-> from ]
    ELSE [ ok |-> TRUE,
           nodes |-> [ from EXCEPT ![node_id] = SetField(@, field, request, now) ] ]

\* A statement executed on the pool instead of the transaction: it is
\* committed at once.
ExecuteOnPool(committed, view, node_id, field, request, now) ==
    LET w == Written(committed, node_id, field, request, now)
    IN  [ ok |-> w.ok, committed |-> w.nodes, view |-> w.nodes ]

\* A statement executed on the transaction (.execute(&mut *tx)): it
\* writes to the view of the transaction and the committed table stays.
Execute(committed, view, node_id, field, request, now) ==
    LET w == Written(view, node_id, field, request, now)
    IN  [ ok |-> w.ok, committed |-> committed, view |-> w.nodes ]

\* update_node.  On no row every UPDATE matches nothing, the transaction
\* commits and the closing get_node fails.  On a row: nothing is written
\* when no field is present; a parent_id that is no row fails its UPDATE
\* and the transaction rolls back; otherwise the fields, updated_at and
\* the version are written.
update_node(tbl, node_id, request, now) ==
    IF node_id \notin Ids(tbl)
    THEN [ kind |-> QueryFailed, wrote |-> FALSE, nodes |-> tbl ]
    ELSE IF IsEmptyRequest(request)
    THEN [ kind |-> OkKind, wrote |-> FALSE, nodes |-> tbl ]
    ELSE IF ~ParentOk(tbl, request.parent_id)
    THEN [ kind |-> QueryFailed, wrote |-> FALSE, nodes |-> tbl ]
    ELSE [ kind |-> OkKind, wrote |-> TRUE,
           nodes |-> [ tbl EXCEPT ![node_id] = ApplyRequest(@, request, now) ] ]

\* An UPDATE that rewrites the parent and leaves the order.
MoveKeepOrder(row, new_parent_id, new_order, now) ==
    [ row EXCEPT !.parent_id = new_parent_id,
                 !.updated_at = now, !.version = @ + 1 ]

\* The single UPDATE of move_node.
MoveRow(row, new_parent_id, new_order, now) ==
    [ row EXCEPT !.parent_id = new_parent_id, !.order_index = new_order,
                 !.updated_at = now, !.version = @ + 1 ]

\* A move that does not fail on a new parent that is no row.
MoveUnchecked(tbl, node_id, new_parent_id, new_order, now) ==
    IF node_id \in Ids(tbl)
    THEN [ kind |-> OkKind,
           nodes |-> [ tbl EXCEPT ![node_id] =
                         MoveRow(@, new_parent_id, new_order, now) ] ]
    ELSE [ kind |-> QueryFailed, nodes |-> tbl ]

\* move_node: the UPDATE, which the foreign key fails for a new parent
\* that is no row, then get_node, which fails on no row.
move_node(tbl, node_id, new_parent_id, new_order, now) ==
    IF node_id \in Ids(tbl) /\ ParentOk(tbl, new_parent_id)
    THEN [ kind |-> OkKind,
           nodes |-> [ tbl EXCEPT ![node_id] =
                         MoveRow(@, new_parent_id, new_order, now) ] ]
    ELSE [ kind |-> QueryFailed, nodes |-> tbl ]

\* delete_node.
delete_node(tbl, links, node_id) ==
    LET db == DeleteRec([ nodes |-> tbl, links |-> links, diverged |-> FALSE ],
                        node_id, {})
    IN  [ kind |-> IF db.diverged THEN NoReturn ELSE OkKind,
          nodes |-> db.nodes, links |-> db.links ]

\* The Node value a caller passes to the link service.
NodeValue(id, content) == [ id |-> id, content |-> content ]

\* A statement of a transaction body on node_links.
DeleteStmt(source) == [ sql |-> "DELETE", source |-> source ]
InsertStmt(source, target) ==
    [ sql |-> "INSERT OR IGNORE", source |-> source, target |-> target ]

\* A transaction body that executes its statements in turn, each followed
\* by `?`: the first failing statement ends the body with its error, and
\* what the statements before it wrote is in the transaction.
RECURSIVE RunStatements(_, _, _, _)
RunStatements(tbl, links, stmts, i) ==
    IF i > Len(stmts) THEN [ ok |-> TRUE, links |-> links ]
    ELSE IF stmts[i].sql = "DELETE"
    THEN RunStatements(tbl, DeleteOutEdges(links, stmts[i].source), stmts, i + 1)
    ELSE LET r == InsertOrIgnore(tbl, links, stmts[i].source, stmts[i].target)
         IN  IF r.ok THEN RunStatements(tbl, r.links, stmts, i + 1) ELSE r

\* A with_transaction that keeps what the body wrote whatever it returns.
NoRollback(before, r) ==
    [ kind |-> IF r.ok THEN OkKind ELSE QueryFailed, links |-> r.links ]

\* with_transaction, given the table before the call and what the body
\* returned and wrote in its transaction: commit when the body returns Ok,
\* rollback otherwise, and the body's result with its error mapped to
\* DatabaseQueryFailed.
with_transaction(before, r) ==
    IF r.ok THEN [ kind |-> OkKind, links |-> r.links ]
    ELSE [ kind |-> QueryFailed, links |-> before ]

\* update_links_for_node: its body run by with_transaction.
update_links_for_node(tbl, links, node) ==
    with_transaction(links, LinkTransaction(tbl, links, node.id, node.content))

-----------------------------------------------------------------------------
(* Daily notes. *)

DailyPrefix == <<"D", "a", "i", "l", "y", " ", "N", "o", "t", "e", " ", "-", " ">>

\* format!("Daily Note - {}", date)
DailyTitle(date) == DailyPrefix \o date

\* The rows matched by: content LIKE ?, with ? the title followed by '%'.
DailyRows(tbl, date) ==
    { n \in Ids(tbl) : Like(tbl[n].content, DailyTitle(date) \o <<"%">>) }

\* A lookup that finds no row.
NoneFound(tbl, date) == None

\* SELECT id FROM nodes WHERE content LIKE ? LIMIT 1, fetch_optional.
FindDaily(tbl, date) ==
    LET found == DailyRows(tbl, date)
    IN  IF found = {} THEN None ELSE Some(MinOf(found))

\* The CreateNodeRequest of a new daily note.
DailyRequest(date) ==
    CreateNodeRequest(DailyTitle(date), None, Some(0),
                      Some({ <<"type", "daily_note">>, <<"date", date>> }),
                      Some(<<"daily", "journal">>))

\* get_daily_note: fetch_one of the row the lookup finds, which is a query
\* error on no row; the Node of the row with the ids of its children in
\* rowid order.
get_daily_note(tbl, date) ==
    LET found == FindDaily(tbl, date)
    IN  IF found = None THEN [ kind |-> QueryFailed ]
        ELSE [ kind |-> OkKind, id |-> Unwrap(found),
               node |-> [ NodeOf(tbl, Unwrap(found)) EXCEPT
                            !.children = SortedSeq(ChildIds(tbl, Unwrap(found))) ] ]

\* A second half that creates a row whatever the lookup returned.
AlwaysCreate(tbl, existing, date, node_id, now) ==
    LET r == create_node(tbl, node_id, now, DailyRequest(date))
    IN  [ kind |-> r.kind, id |-> node_id, nodes |-> r.nodes,
          created |-> r.kind = OkKind ]

\* The second half of get_or_create_daily_note: get_node of the row the
\* lookup returned, or create_node of a new daily note when it returned
\* none.
DailyResolve(tbl, existing, date, node_id, now) ==
    IF existing # None
    THEN [ kind |-> GetNode(tbl, Unwrap(existing)).kind, id |-> Unwrap(existing),
           nodes |-> tbl, created |-> FALSE ]
    ELSE LET r == create_node(tbl, node_id, now, DailyRequest(date))
         IN  [ kind |-> r.kind, id |-> node_id, nodes |-> r.nodes,
               created |-> r.kind = OkKind ]

\* get_or_create_daily_note run by one caller with no other call in
\* between its lookup and its second half.
get_or_create_daily_note(tbl, date, node_id, now) ==
    DailyResolve(tbl, FindDaily(tbl, date), date, node_id, now)

-----------------------------------------------------------------------------
(* Schema initialization and the default user.  A database is the tables   *)
(* that exist and their rows.                                              *)

AllTables == { "nodes", "node_links", "nodes_fts", "users" }

Database(tbls, tbl, links, usrs) ==
    [ tables |-> tbls, nodes |-> tbl, node_links |-> links, users |-> usrs ]

\* initialize_schema: every statement is CREATE ... IF NOT EXISTS: a table
\* that is missing is created without rows, a table that exists is left
\* with its rows.
initialize_schema(db) ==
    [ db EXCEPT
        !.tables = @ \cup AllTables,
        !.nodes = IF "nodes" \in db.tables THEN @ ELSE << >>,
        !.node_links = IF "node_links" \in db.tables THEN @ ELSE {},
        !.users = IF "users" \in db.tables THEN @ ELSE {} ]

\* SELECT COUNT(*) FROM users, with unwrap_or(0) on a failed query.
CountUsers(db) == IF "users" \in db.tables THEN Cardinality(db.users) ELSE 0

\* INSERT INTO users (id, name): fails without the table and on an id
\* that is stored, the primary key.
InsertUser(db, id) ==
    IF "users" \notin db.tables \/ id \in db.users
    THEN [ kind |-> QueryFailed, db |-> db ]
    ELSE [ kind |-> OkKind, db |-> [ db EXCEPT !.users = @ \cup {id} ] ]

\* A bootstrap that inserts the default user without counting the rows.
InsertWithoutCount(db) == InsertUser(db, DEFAULT_USER)

\* ensure_default_user: the row is inserted when the table has no row.
ensure_default_user(db) ==
    IF CountUsers(db) = 0 THEN InsertUser(db, DEFAULT_USER)
    ELSE [ kind |-> OkKind, db |-> db ]

\* init_database, and DatabaseService::new: initialize_schema, then
\* ensure_default_user.
init_database(db) == ensure_default_user(initialize_schema(db))

-----------------------------------------------------------------------------
(* The connection pool of DatabaseService.  The connections of the Vec are *)
(* interchangeable, so the Vec is modelled by its length.  Time is counted *)
(* in sleeps of the acquisition loop.                                      *)

max_connections == 5

ConnectionFailed == "DatabaseConnectionFailed"

\* A thread outside with_connection, with what its last call returned.
Resting(result) == [ pc |-> "idle", elapsed |-> 0, result |-> result ]

\* A thread inside with_connection: at the length check of the loop
\* ("len"), in its sleep ("asleep") or running the operation on its
\* connection ("op"), and the time since its acquisition started.
At(pc, elapsed) == [ pc |-> pc, elapsed |-> elapsed, result |-> "none" ]

\* One pass of the loop of get_connection up to its pop: a connection
\* popped from the pool is returned to with_connection, which runs the
\* operation on it; on an empty pool the loop goes on to its length check.
TryPop(pool, elapsed) ==
    IF pool > 0
    THEN [ local |-> At("op", 0), pool |-> pool - 1 ]
    ELSE [ local |-> At("len", elapsed), pool |-> pool ]

\* The length check: with fewer than max_connections connections in the
\* pool a new connection is opened and returned; otherwise the thread
\* sleeps.
LenCheck(pool, elapsed) ==
    IF pool < max_connections
    THEN [ local |-> At("op", 0), pool |-> pool ]
    ELSE [ local |-> At("asleep", elapsed), pool |-> pool ]

\* A loop without the timeout check: after its sleep it tries the pool
\* again, however long it has been trying.
WakeAndRetry(pool, elapsed, slept) == TryPop(pool, elapsed)

\* The end of a sleep of `slept` periods and the top of the loop: past the
\* pool timeout the acquisition returns DatabaseConnectionFailed, which
\* with_connection hands to its caller; otherwise the pool is tried again.
Wake(pool, elapsed, slept) ==
    IF elapsed + slept > MaxSleeps
    THEN [ local |-> Resting(ConnectionFailed), pool |-> pool ]
    ELSE TryPop(pool, elapsed + slept)

\* A with_connection that puts the connection back only when the
\* operation returned Ok.
ReturnOnSuccess(pool, ok) == IF ok THEN pool + 1 ELSE pool

\* The end of with_connection: whatever the operation returned, the
\* connection is pushed onto the pool.
return_connection(pool, ok) == pool + 1

\* What with_connection returns after the operation: its result, an error
\* as DatabaseQueryFailed.
Returned(ok) == Resting(IF ok THEN OkKind ELSE QueryFailed)

\* with_connection run by one thread while no other thread touches the
\* pool: the acquisition pops a connection or opens one, the operation
\* runs, the connection is returned.
with_connection(pool, ok) ==
    LET popped == TryPop(pool, 0)
        got == IF popped.local.pc = "op" THEN popped
               ELSE LenCheck(popped.pool, 0)
    IN  IF got.local.pc = "op"
        THEN [ local |-> Returned(ok), pool |-> return_connection(got.pool, ok) ]
        ELSE got

\* As many other threads as the pool is meant to admit connections.
OtherThreads == max_connections

\* The places of a call at which the other threads are counted.
OtherLocals ==
    { At(pc, e) : pc \in { "len", "asleep" }, e \in 0..MaxSleeps }
    \cup { At("op", 0) }

RECURSIVE SumOver(_, _)
SumOver(f, S) ==
    IF S = {} THEN 0
    ELSE LET x == CHOOSE y \in S : TRUE IN f[x] + SumOver(f, S \ {x})

\* The other threads inside a call.
Active(o) == SumOver(o, OtherLocals)

\* One of the other threads leaves place `from` (none when it starts a
\* call) and enters the place `to` (none when its call ends).
Moved(o, from, to) ==
    [ l \in OtherLocals |->
        IF l = from /\ l = to THEN o[l]
        ELSE IF l = from THEN o[l] - 1
        ELSE IF l = to THEN o[l] + 1
        ELSE o[l] ]

\* The steps of the tracked thread.
MeCall ==
    /\ me.pc = "idle"
    /\ LET r == TryPop(connection_pool, 0)
       IN  me' = r.local /\ connection_pool' = r.pool
    /\ UNCHANGED <<nonPoolVars, others>>

MeLen ==
    /\ me.pc = "len"
    /\ LET r == LenCheck(connection_pool, me.elapsed)
       IN  me' = r.local /\ connection_pool' = r.pool
    /\ UNCHANGED <<nonPoolVars, others>>

MeWake ==
    /\ me.pc = "asleep"
    /\ \E slept \in 1..(MaxSleeps + 1 - me.elapsed) :
           LET r == Wake(connection_pool, me.elapsed, slept)
           IN  me' = r.local /\ connection_pool' = r.pool
    /\ UNCHANGED <<nonPoolVars, others>>

MeFinish ==
    /\ me.pc = "op"
    /\ \E ok \in BOOLEAN :
           /\ me' = Returned(ok)
           /\ connection_pool' = return_connection(connection_pool, ok)
    /\ UNCHANGED <<nonPoolVars, others>>

\* The same steps taken by one of the other threads.
OtherCall ==
    /\ Active(others) < OtherThreads
    /\ LET r == TryPop(connection_pool, 0)
       IN  /\ others' = Moved(others, Resting("none"), r.local)
           /\ connection_pool' = r.pool
    /\ UNCHANGED <<nonPoolVars, me>>

OtherLen ==
    /\ \E l \in OtherLocals :
           /\ l.pc = "len" /\ others[l] > 0
           /\ LET r == LenCheck(connection_pool, l.elapsed)
              IN  /\ others' = Moved(others, l, r.local)
                  /\ connection_pool' = r.pool
    /\ UNCHANGED <<nonPoolVars, me>>

OtherWake ==
    /\ \E l \in OtherLocals :
           /\ l.pc = "asleep" /\ others[l] > 0
           /\ \E slept \in 1..(MaxSleeps + 1 - l.elapsed) :
                  LET r == Wake(connection_pool, l.elapsed, slept)
                  IN  /\ others' = Moved(others, l, r.local)
                      /\ connection_pool' = r.pool
    /\ UNCHANGED <<nonPoolVars, me>>

OtherFinish ==
    /\ others[At("op", 0)] > 0
    /\ \E ok \in BOOLEAN :
           /\ others' = Moved(others, At("op", 0), Returned(ok))
           /\ connection_pool' = return_connection(connection_pool, ok)
    /\ UNCHANGED <<nonPoolVars, me>>

-----------------------------------------------------------------------------
(* The page and block service: one connection behind a mutex.  Every       *)
(* method begins with `let conn = self.connection.lock().unwrap()` and     *)
(* holds the guard until it returns.                                       *)

FileNotFound == "FileNotFound"

\* The mutex after construction: not locked, not poisoned, and the rows of
\* pages and blocks in the database.
Unlocked ==
    [ holder |-> None, poisoned |-> FALSE, pages |-> {}, blocks |-> {} ]

\* A thread outside the service, with what its last call returned.
PageIdle(result) ==
    [ pc |-> "idle", op |-> "none", id |-> 0, empty |-> FALSE,
      result |-> result ]

\* A thread inside a method: op is the method, id the page or block id it
\* was given, empty whether its update request sets no field; pc is "lock"
\* at the first lock() of the method, "held" in its body with the guard,
\* "relock" at a lock() that a method called from the body begins with.
PageAt(pc, op, id, empty) ==
    [ pc |-> pc, op |-> op, id |-> id, empty |-> empty, result |-> "none" ]

\* The methods that write or read one row, and the three lookups they
\* call.
PageOps ==
    { "create_page", "update_page", "create_block", "update_block",
      "move_block", "get_default_user_id", "get_page", "get_block" }

\* The rows an UPDATE ... WHERE id = ? changes.
Affected(rows, id) == Cardinality(rows \cap { id })

\* What a body does with the guard up to its return: returned is FALSE
\* when, before returning, it calls a method of the service.
BodyReturns(result) == [ returned |-> TRUE, result |-> result ]
BodyCalls == [ returned |-> FALSE, result |-> "none" ]

\* The lookups: a query on the connection, then the return.
get_default_user_id_body == BodyReturns(OkKind)
get_page_body(db, id) ==
    BodyReturns(IF id \in db.pages THEN OkKind ELSE FileNotFound)
get_block_body(db, id) ==
    BodyReturns(IF id \in db.blocks THEN OkKind ELSE FileNotFound)

\* create_page and create_block: after the id is generated, and before
\* the INSERT, the body calls self.get_default_user_id().
create_page_body == BodyCalls
create_block_body == BodyCalls

\* update_page: a request that sets no field returns self.get_page(..);
\* otherwise the UPDATE runs, on no row the body returns FileNotFound, on
\* a row it returns self.get_page(..).
update_page_body(db, id, empty) ==
    IF empty THEN BodyCalls
    ELSE IF Affected(db.pages, id) = 0 THEN BodyReturns(FileNotFound)
    ELSE BodyCalls

\* update_block, likewise with self.get_block(..).
update_block_body(db, id, empty) ==
    IF empty THEN BodyCalls
    ELSE IF Affected(db.blocks, id) = 0 THEN BodyReturns(FileNotFound)
    ELSE BodyCalls

\* move_block: the UPDATE, FileNotFound on no row, else self.get_block(..).
move_block_body(db, id) ==
    IF Affected(db.blocks, id) = 0 THEN BodyReturns(FileNotFound)
    ELSE BodyCalls

\* The body of the method a thread is in.
PageBodyOf(db, call) ==
    CASE call.op = "create_page" -> create_page_body
      [] call.op = "create_block" -> create_block_body
      [] call.op = "update_page" -> update_page_body(db, call.id, call.empty)
      [] call.op = "update_block" -> update_block_body(db, call.id, call.empty)
      [] call.op = "move_block" -> move_block_body(db, call.id)
      [] call.op = "get_default_user_id" -> get_default_user_id_body
      [] call.op = "get_page" -> get_page_body(db, call.id)
      [] call.op = "get_block" -> get_block_body(db, call.id)

-----------------------------------------------------------------------------
(* The calls of a single caller as steps of the store. *)

\* Utc::now() of a call that writes.
Now == clock + 1

CreateNode(request) ==
    LET r == create_node(nodes, issued + 1, Now, request)
    IN  /\ nodes' = r.nodes
        /\ issued' = IF r.kind = OkKind THEN issued + 1 ELSE issued
        /\ clock' = IF r.kind = OkKind THEN Now ELSE clock
        /\ UNCHANGED <<node_links, synced, callers>>
        /\ UNCHANGED auxVars

\* An update that resynchronizes the edges of the node with the content it
\* has stored.
UpdateAndResync(node_id, request) ==
    LET r == update_node(nodes, node_id, request, Now)
        l == IF node_id \in Ids(r.nodes)
             THEN update_links_for_node(r.nodes, node_links,
                                        NodeValue(node_id, r.nodes[node_id].content))
             ELSE [ kind |-> QueryFailed, links |-> node_links ]
    IN  /\ nodes' = r.nodes
        /\ clock' = IF r.wrote THEN Now ELSE clock
        /\ node_links' = l.links
        /\ synced' = IF l.kind = OkKind
                     THEN [ synced EXCEPT ![node_id] =
                              ResolvedTargets(r.nodes, r.nodes[node_id].content) ]
                     ELSE synced
        /\ UNCHANGED <<issued, callers>>
        /\ UNCHANGED auxVars

UpdateNode(node_id, request) ==
    LET r == update_node(nodes, node_id, request, Now)
    IN  /\ nodes' = r.nodes
        /\ clock' = IF r.wrote THEN Now ELSE clock
        /\ UNCHANGED <<node_links, issued, synced, callers>>
        /\ UNCHANGED auxVars

MoveNode(node_id, new_parent_id, new_order) ==
    LET r == move_node(nodes, node_id, new_parent_id, new_order, Now)
    IN  /\ nodes' = r.nodes
        /\ clock' = IF r.kind = OkKind THEN Now ELSE clock
        /\ UNCHANGED <<node_links, issued, synced, callers>>
        /\ UNCHANGED auxVars

DeleteNode(node_id) ==
    LET r == delete_node(nodes, node_links, node_id)
    IN  /\ nodes' = r.nodes
        /\ node_links' = r.links
        /\ synced' = [ n \in DOMAIN synced |->
                        IF n \in Ids(r.nodes) THEN synced[n] ELSE {} ]
        /\ UNCHANGED <<issued, clock, callers>>
        /\ UNCHANGED auxVars

\* A caller of get_or_create_daily_note between two calls.
Idle == [ pc |-> "idle", date |-> <<>>, existing |-> None ]

\* The lookup of get_or_create_daily_note, run by caller c.
DailyLookup(c, date) ==
    /\ callers[c].pc = "idle"
    /\ callers' = [ callers EXCEPT ![c] =
                      [ pc |-> "looked", date |-> date,
                        existing |-> FindDaily(nodes, date) ] ]
    /\ UNCHANGED <<nodes, node_links, issued, clock, synced>>
    /\ UNCHANGED auxVars

\* The second half of get_or_create_daily_note, run by caller c with what
\* its lookup returned.
DailyFinish(c) ==
    /\ callers[c].pc = "looked"
    /\ LET r == DailyResolve(nodes, callers[c].existing, callers[c].date,
                             issued + 1, Now)
       IN  /\ nodes' = r.nodes
           /\ issued' = IF r.created THEN issued + 1 ELSE issued
           /\ clock' = IF r.created THEN Now ELSE clock
    /\ callers' = [ callers EXCEPT ![c] = Idle ]
    /\ UNCHANGED <<node_links, synced>>
    /\ UNCHANGED auxVars

\* The caller resynchronizes the node value it has just read.
UpdateLinksForNode(node_id) ==
    /\ node_id \in Ids(nodes)
    /\ LET node == NodeValue(node_id, nodes[node_id].content)
           r == update_links_for_node(nodes, node_links, node)
       IN  /\ node_links' = r.links
           /\ synced' = IF r.kind = OkKind
                        THEN [ synced EXCEPT ![node_id] =
                                 ResolvedTargets(nodes, node.content) ]
                        ELSE synced
    /\ UNCHANGED <<nodes, issued, clock, callers>>
    /\ UNCHANGED auxVars

\* The caller resynchronizes a node value it holds, whatever the table
\* holds for its id by now.
UpdateLinksForValue(node_id, content) ==
    /\ LET r == update_links_for_node(nodes, node_links,
                                      NodeValue(node_id, content))
       IN  /\ node_links' = r.links
           /\ synced' = IF r.kind = OkKind
                        THEN [ synced EXCEPT ![node_id] =
                                 ResolvedTargets(nodes, content) ]
                        ELSE synced
    /\ UNCHANGED <<nodes, issued, clock, callers>>
    /\ UNCHANGED auxVars

\* A caller runs a transaction body of the given statements.
WithTransaction(stmts) ==
    /\ node_links' = with_transaction(node_links,
                          RunStatements(nodes, node_links, stmts, 1)).links
    /\ UNCHANGED <<nodes, issued, clock, synced, callers>>
    /\ UNCHANGED auxVars

\* The service is constructed on the database file.
InitDatabase ==
    LET r == init_database(Database(tables, nodes, node_links, users))
    IN  /\ tables' = r.db.tables
        /\ users' = r.db.users
        /\ nodes' = r.db.nodes
        /\ node_links' = r.db.node_links
        /\ UNCHANGED <<issued, clock, synced, callers, poolVars, txVars,
                       cmdVars, pageVars>>

\* update_node as the steps of its transaction.  The call reads the
\* clock and begins a transaction.
UpdateBegin(node_id, request) ==
    /\ update_tx = None
    /\ update_tx' = Some([ node_id |-> node_id, request |-> request,
                           now |-> Now, next |-> 1, wrote |-> FALSE,
                           view |-> nodes ])
    /\ clock' = Now
    /\ UNCHANGED <<nodes, node_links, issued, synced, callers>>
    /\ UNCHANGED <<poolVars, bootVars, delete_calls, cmdVars, pageVars>>

\* The next statement of the open transaction is executed; a statement
\* that fails ends the call, and the transaction is rolled back when it is
\* dropped.
UpdateStatement ==
    /\ update_tx # None
    /\ LET t == Unwrap(update_tx)
           k == NextStatement(t.request, t.next)
       IN  /\ k <= Len(UpdateStatements)
           /\ LET r == Execute(nodes, IF t.wrote THEN t.view ELSE nodes,
                               t.node_id, UpdateStatements[k], t.request, t.now)
              IN  /\ nodes' = r.committed
                  /\ update_tx' =
                         IF r.ok
                         THEN Some([ t EXCEPT !.next = k + 1, !.wrote = TRUE,
                                              !.view = r.view ])
                         ELSE None
    /\ UNCHANGED <<node_links, issued, clock, synced, callers>>
    /\ UNCHANGED <<poolVars, bootVars, delete_calls, cmdVars, pageVars>>

\* No statement is left: the transaction commits.
UpdateCommit ==
    /\ update_tx # None
    /\ LET t == Unwrap(update_tx)
       IN  /\ NextStatement(t.request, t.next) > Len(UpdateStatements)
           /\ nodes' = IF t.wrote THEN t.view ELSE nodes
    /\ update_tx' = None
    /\ UNCHANGED <<node_links, issued, clock, synced, callers>>
    /\ UNCHANGED <<poolVars, bootVars, delete_calls, cmdVars, pageVars>>

\* delete_node as the steps of its chain of calls.  A call begins a
\* transaction and reads the ids of the children of its node; `before` is
\* what the tables held when the call began.
DeleteFrame(node_id) ==
    [ node_id |-> node_id,
      children |-> SortedSeq(ChildIds(nodes, node_id)),
      before |-> [ nodes |-> nodes, links |-> node_links ] ]

DeleteBegin(node_id) ==
    /\ delete_calls = << >>
    /\ delete_calls' = << DeleteFrame(node_id) >>
    /\ UNCHANGED <<storeVars, poolVars, bootVars, update_tx, cmdVars,
                 pageVars>>

\* The innermost call has a child left: it calls delete_node on it, which
\* begins a transaction of its own on the pool.
DeleteDescend ==
    /\ delete_calls # << >>
    /\ LET top == Len(delete_calls)
           f == delete_calls[top]
       IN  /\ f.children # << >>
           /\ delete_calls' =
                  Append([ delete_calls EXCEPT ![top].children = Tail(@) ],
                         DeleteFrame(Head(f.children)))
    /\ UNCHANGED <<storeVars, poolVars, bootVars, update_tx, cmdVars,
                 pageVars>>

\* The innermost call has no child left: it deletes its row, commits its
\* transaction and returns to its caller.
DeleteSelf ==
    /\ delete_calls # << >>
    /\ LET top == Len(delete_calls)
           f == delete_calls[top]
           db == SqlDeleteNode([ nodes |-> nodes, links |-> node_links ],
                               f.node_id)
       IN  /\ f.children = << >>
           /\ nodes' = db.nodes
           /\ node_links' = db.links
           /\ synced' = [ n \in DOMAIN synced |->
                            IF n \in Ids(db.nodes) THEN synced[n] ELSE {} ]
           /\ delete_calls' = SubSeq(delete_calls, 1, top - 1)
    /\ UNCHANGED <<issued, clock, callers>>
    /\ UNCHANGED <<poolVars, bootVars, update_tx, cmdVars, pageVars>>

\* A step of the innermost call fails (begin, SELECT, DELETE or commit
\* returns an error): `?` returns the error through every call of the
\* chain, and the transactions that are open are rolled back when they are
\* dropped.
DeleteFail ==
    /\ delete_calls # << >>
    /\ delete_calls' = << >>
    /\ UNCHANGED <<storeVars, poolVars, bootVars, update_tx, cmdVars,
                 pageVars>>

-----------------------------------------------------------------------------
(* Inputs. *)

Txt_P == <<"P">>
Txt_Px == <<"P", "x">>
Ref_P == <<"[", "[", "P", "]", "]">>
Ref_Px == <<"[", "[", "P", "x", "]", "]">>

Contents == { Txt_P, Txt_Px, Ref_P, Ref_Px }

\* The contents an update writes: a new title and a new reference.
NewContents == { Txt_Px, Ref_Px }

NodeIds == 1..MaxNodes

Callers == 1..NumCallers

Date_14 == <<"1", "4">>
Date_15 == <<"1", "5">>
Dates == { Date_14, Date_15 }
ParentChoices == { None } \cup { Some(n) : n \in NodeIds }
OrderChoices == { 0, 1 }

Props1 == { <<"k", "v">> }
Tags1 == <<"t">>

Init ==
    /\ nodes = << >>
    /\ node_links = {}
    /\ issued = 0
    /\ clock = 0
    /\ synced = [ n \in NodeIds |-> {} ]
    /\ callers = [ c \in Callers |-> Idle ]
    /\ connection_pool = 0
    /\ me = Resting("none")
    /\ others = [ l \in OtherLocals |-> 0 ]
    /\ tables = AllTables
    /\ users = { DEFAULT_USER }
    /\ update_tx = None
    /\ delete_calls = << >>
    /\ commands = [ c \in Callers |-> None ]
    /\ connection = Unlocked
    /\ page_calls = [ t \in Callers |-> PageIdle("none") ]

\* The writes that are not creations.
Rewrites == clock - issued

-----------------------------------------------------------------------------
(* The link index under one caller: root nodes with contents from          *)
(* Contents, content updates, deletions and resynchronizations.            *)

LinkCreate ==
    /\ issued < MaxNodes
    /\ \E c \in Contents :
           CreateNode(CreateNodeRequest(c, None, None, None, None))

LinkUpdate ==
    /\ Rewrites < MaxRewrites
    /\ \E n \in NodeIds, c \in NewContents :
           UpdateNode(n, [ EmptyRequest EXCEPT !.content = Some(c) ])

LinkDelete == \E n \in NodeIds : DeleteNode(n)

LinkResync == \E n \in NodeIds : UpdateLinksForNode(n)

LinkNext == LinkCreate \/ LinkUpdate \/ LinkDelete \/ LinkResync

SpecLinks == Init /\ [][LinkNext]_vars

-----------------------------------------------------------------------------
(* The tree under one caller: nodes created under any parent, updates of   *)
(* every field, moves, deletions and resynchronizations.                   *)

TreeContents == { Txt_P, Ref_P }

\* The partial updates a caller sends: none of the fields, or one of
\* them, or the properties and the tags together.
UpdateRequests ==
    { EmptyRequest,
      [ EmptyRequest EXCEPT !.content = Some(Ref_P) ],
      [ EmptyRequest EXCEPT !.order = Some(1) ],
      [ EmptyRequest EXCEPT !.properties = Some(Props1), !.tags = Some(Tags1) ] }
    \cup { [ EmptyRequest EXCEPT !.parent_id = Some(p) ] : p \in NodeIds }

TreeCreate ==
    /\ issued < MaxNodes
    /\ \E c \in TreeContents, p \in ParentChoices, o \in { None, Some(1) } :
           CreateNode(CreateNodeRequest(c, p, o, None, None))

TreeUpdate ==
    /\ Rewrites < MaxRewrites
    /\ \E n \in NodeIds, request \in UpdateRequests : UpdateNode(n, request)

TreeMove ==
    /\ Rewrites < MaxRewrites
    /\ \E n \in NodeIds, p \in ParentChoices, o \in OrderChoices : MoveNode(n, p, o)

TreeDelete == \E n \in NodeIds : DeleteNode(n)

TreeResync == \E n \in NodeIds : UpdateLinksForNode(n)

Next == TreeCreate \/ TreeUpdate \/ TreeMove \/ TreeDelete \/ TreeResync

Spec == Init /\ [][Next]_vars

-----------------------------------------------------------------------------
(* Properties of the tree, stated over Spec.                               *)

\* Error kinds that the specification names and AppError does not have.
NotFound == "NotFound"
CyclicMoveError == "CyclicMoveError"

\* A node and the nodes below it.
Subtree(tbl, id) == CascadeClosure(tbl, {id})

\* Following parent_id from n reaches a root without revisiting a node.
RECURSIVE ReachesRoot(_, _, _)
ReachesRoot(tbl, n, seen) ==
    IF n \in seen \/ n \notin Ids(tbl) THEN FALSE
    ELSE IF tbl[n].parent_id = None THEN TRUE
    ELSE ReachesRoot(tbl, Unwrap(tbl[n].parent_id), seen \cup {n})

\* C1: delete(id) on a stored node returns, removes exactly the node and
\* its descendants, removes exactly the edges with a removed node as source
\* or target, and afterwards get of every removed id fails with NotFound.
C1_DeleteCascades ==
    \A id \in Ids(nodes) :
        LET gone == Subtree(nodes, id)
            r    == delete_node(nodes, node_links, id)
        IN  /\ r.kind = OkKind
            /\ r.nodes = Restrict(nodes, Ids(nodes) \ gone)
            /\ r.links = { e \in node_links : e[1] \notin gone /\ e[2] \notin gone }
            /\ \A g \in gone : GetNode(r.nodes, g).kind = NotFound

\* C2: move(P, new_parent, order) with new_parent P itself or a descendant
\* of P fails with CyclicMoveError and leaves the parent_id, the order and
\* the version of P as they were.
C2_CyclicMoveRejected ==
    \A P \in Ids(nodes) :
        \A q \in Subtree(nodes, P), o \in OrderChoices :
            LET r == move_node(nodes, P, Some(q), o, Now)
            IN  /\ r.kind = CyclicMoveError
                /\ r.nodes[P].parent_id = nodes[P].parent_id
                /\ r.nodes[P].order_index = nodes[P].order_index
                /\ r.nodes[P].version = nodes[P].version

\* C3: in every reachable state the parent relation is acyclic: from every
\* node, following parent_id reaches a root without revisiting a node.
C3_ParentAcyclic == \A n \in Ids(nodes) : ReachesRoot(nodes, n, {})

\* C4: every update(id, partial) that succeeds, the empty partial update
\* included, increases the version of the node by exactly 1 and strictly
\* increases its updated_at.
C4_UpdateBumpsVersion ==
    \A id \in Ids(nodes), request \in UpdateRequests :
        LET r == update_node(nodes, id, request, Now)
        IN  r.kind = OkKind
            => /\ r.nodes[id].version = nodes[id].version + 1
               /\ r.nodes[id].updated_at > nodes[id].updated_at

\* C5: a node has version 1 right after create; every successful mutation
\* of a node (update or move) changes its version by exactly +1; and an
\* operation on a node leaves the version of every other node unchanged.
C5_VersionSteps ==
    /\ \A c \in TreeContents, p \in ParentChoices :
           LET r == create_node(nodes, issued + 1, Now,
                                CreateNodeRequest(c, p, None, None, None))
           IN  r.kind = OkKind
               => /\ r.nodes[issued + 1].version = 1
                  /\ \A m \in Ids(nodes) : r.nodes[m].version = nodes[m].version
    /\ \A id \in Ids(nodes), request \in UpdateRequests :
           LET r == update_node(nodes, id, request, Now)
           IN  r.kind = OkKind
               => /\ r.nodes[id].version = nodes[id].version + 1
                  /\ \A m \in Ids(nodes) \ {id} : r.nodes[m].version = nodes[m].version
    /\ \A id \in Ids(nodes), p \in ParentChoices, o \in OrderChoices :
           LET r == move_node(nodes, id, p, o, Now)
           IN  r.kind = OkKind
               => /\ r.nodes[id].version = nodes[id].version + 1
                  /\ \A m \in Ids(nodes) \ {id} : r.nodes[m].version = nodes[m].version
    /\ \A id \in Ids(nodes) :
           LET r == delete_node(nodes, node_links, id)
           IN  \A m \in Ids(r.nodes) : r.nodes[m].version = nodes[m].version

-----------------------------------------------------------------------------
(* Properties of the link index, stated over SpecLinks.                    *)

\* The result of resynchronizing the stored node S with content c.
ResyncWith(S, c) == update_links_for_node(nodes, node_links, NodeValue(S, c))

\* The result of resynchronizing the stored node S with its stored content.
ResyncNow(S) == ResyncWith(S, nodes[S].content)

\* The targets of the edges a table holds for the source S.
Targets(links, S) == { e[2] : e \in OutEdges(links, S) }

\* The rows whose content equals a reference text exactly.
ExactMatches(tbl, text) == { n \in Ids(tbl) : tbl[n].content = text }

\* C6: if S was resynchronized while its content referenced A, and its
\* content now references only B (another node), then resynchronizing S
\* succeeds and leaves no edge (S, A) and exactly the one edge (S, B) with
\* source S: the outgoing edges are replaced, not appended to.
C6_ResyncReplaces ==
    \A S \in Ids(nodes) :
        LET now == ResolvedTargets(nodes, nodes[S].content)
            r   == ResyncNow(S)
        IN  \A A \in Ids(nodes), B \in Ids(nodes) :
                ( /\ A # B
                  /\ A \in synced[S]
                  /\ <<S, A>> \in node_links
                  /\ now = {B} )
                => /\ r.kind = OkKind
                   /\ <<S, A>> \notin r.links
                   /\ OutEdges(r.links, S) = { <<S, B>> }

\* C6 witness: S holds an edge to A from its last resynchronization, its
\* content has been rewritten and now references only B.
C6_Witness ==
    \E S \in Ids(nodes), A \in Ids(nodes), B \in Ids(nodes) :
        /\ A # B
        /\ A \in synced[S]
        /\ <<S, A>> \in node_links
        /\ nodes[S].version > 1
        /\ ResolvedTargets(nodes, nodes[S].content) = {B}

\* C7: a resynchronization of S that commits leaves, as the targets of the
\* edges with source S, exactly the nodes the reference texts of the passed
\* content resolve to; and in every state, for stored nodes S and T, the
\* edge (S, T) exists if and only if the last resynchronization of S
\* resolved a reference to T.
C7_EdgesAreLastResync ==
    /\ \A c \in Contents :
           LET resolved == ResolvedTargets(nodes, c)
           IN  \A S \in Ids(nodes) :
                   LET r == ResyncWith(S, c)
                   IN  r.kind = OkKind => Targets(r.links, S) = resolved
    /\ \A S \in Ids(nodes), T \in Ids(nodes) :
           <<S, T>> \in node_links <=> T \in synced[S]

\* C7 witness: an edge (S, T) of the last resynchronization of S is stored
\* although the content S holds now no longer resolves to T.
C7_Witness ==
    \E S \in Ids(nodes), T \in Ids(nodes) :
        /\ <<S, T>> \in node_links
        /\ T \in synced[S]
        /\ T \notin ResolvedTargets(nodes, nodes[S].content)

\* C8: resynchronizing a node with a content that holds references, none
\* of which matches a stored node, returns success and leaves no edge with
\* that node as source.
C8_UnresolvedSilent ==
    \A c \in Contents :
        LET texts == LinkTexts(c)
        IN  ( /\ texts # <<>>
              /\ \A i \in 1..Len(texts) : Matches(nodes, texts[i]) = {} )
            => \A S \in Ids(nodes) :
                   LET r == ResyncWith(S, c)
                   IN  /\ r.kind = OkKind
                       /\ OutEdges(r.links, S) = {}

\* C8 witness: S still holds an edge of an earlier resynchronization and
\* the reference of its content matches no stored node any more.
C8_Witness ==
    \E S \in Ids(nodes) :
        /\ LinkTexts(nodes[S].content) # <<>>
        /\ \A i \in 1..Len(LinkTexts(nodes[S].content)) :
               Matches(nodes, LinkTexts(nodes[S].content)[i]) = {}
        /\ OutEdges(node_links, S) # {}

\* C9: the index is not backfilled.  A step that stores a new node M leaves
\* no edge to M, an edge appears only in a step that resynchronizes its
\* source, and when a source S whose reference resolves to M, a node with
\* no backlinks, is resynchronized, the backlinks of M are exactly S.
C9_NoBackfill ==
    /\ [](\A S \in Ids(nodes) :
            LET resolved == ResolvedTargets(nodes, nodes[S].content)
                r        == ResyncNow(S)
            IN  \A M \in resolved :
                    GetLinkedReferences(nodes, node_links, M) = {}
                    => GetLinkedReferences(nodes, r.links, M) = {S})
    /\ [][ /\ \A M \in Ids(nodes') \ Ids(nodes) : InEdges(node_links', M) = {}
           /\ \A e \in node_links' \ node_links : UpdateLinksForNode(e[1]) ]_vars

\* C9 witness: M was stored after S, the reference of S resolves to M, S
\* has not been resynchronized since and M has no backlinks.
C9_Witness ==
    \E S \in Ids(nodes), M \in Ids(nodes) :
        /\ S < M
        /\ LinkTexts(nodes[S].content) # <<>>
        /\ ResolvedTargets(nodes, nodes[S].content) = {M}
        /\ synced[S] = {}
        /\ GetLinkedReferences(nodes, node_links, M) = {}

\* C10: when a resynchronization resolves a reference text that some stored
\* node equals exactly, the edge targets such an exact match; a node that
\* only starts with the text is targeted when no node equals it.
C10_ExactMatchPreferred ==
    \A S \in Ids(nodes) :
        ResyncNow(S).kind = OkKind
        => Targets(ResyncNow(S).links, S) \subseteq
             UNION { IF ExactMatches(nodes, LinkTexts(nodes[S].content)[i]) # {}
                     THEN ExactMatches(nodes, LinkTexts(nodes[S].content)[i])
                     ELSE Matches(nodes, LinkTexts(nodes[S].content)[i]) :
                     i \in 1..Len(LinkTexts(nodes[S].content)) }

-----------------------------------------------------------------------------
(* The link index under contents that reference one node several times:    *)
(* root nodes, deletions and resynchronizations.                           *)

Ref_P_P  == <<"[", "[", "P", "]", "]", "[", "[", "P", "]", "]">>
Ref_P_Px == <<"[", "[", "P", "]", "]", "[", "[", "P", "x", "]", "]">>

DupContents == { Txt_Px, Ref_P_P, Ref_P_Px }

DupCreate ==
    /\ issued < MaxNodes
    /\ \E c \in DupContents :
           CreateNode(CreateNodeRequest(c, None, None, None, None))

DupDelete == \E n \in NodeIds : DeleteNode(n)

DupResync == \E n \in NodeIds : UpdateLinksForNode(n)

DupNext == DupCreate \/ DupDelete \/ DupResync

SpecDup == Init /\ [][DupNext]_vars

\* C11: a resynchronization with a content that holds the same reference
\* text several times, or several texts that resolve to one node, does not
\* fail, and leaves one edge per node resolved, however many references
\* resolve to it: the edges with source S are as many as the distinct
\* targets and at most as many as the reference texts.
C11_DuplicatesCollapse ==
    \A c \in DupContents :
        LET texts    == LinkTexts(c)
            resolved == ResolvedTargets(nodes, c)
        IN  \A S \in Ids(nodes) :
                LET r == ResyncWith(S, c)
                IN  /\ r.kind = OkKind
                    /\ OutEdges(r.links, S) = { <<S, T>> : T \in resolved }
                    /\ Cardinality(OutEdges(r.links, S)) = Cardinality(resolved)
                    /\ Cardinality(OutEdges(r.links, S)) <= Len(texts)

\* C11 witness: S has been resynchronized with a content whose two
\* references resolve to the same node T, and holds the one edge (S, T).
C11_Witness ==
    \E S \in Ids(nodes), T \in Ids(nodes) :
        LET texts == LinkTexts(nodes[S].content)
        IN  /\ Len(texts) = 2
            /\ FindTarget(nodes, texts[1]) = Some(T)
            /\ FindTarget(nodes, texts[2]) = Some(T)
            /\ synced[S] = {T}
            /\ OutEdges(node_links, S) = { <<S, T>> }

-----------------------------------------------------------------------------
(* Daily notes under concurrent callers: each call of                      *)
(* get_or_create_daily_note is a lookup step and a later second step, and  *)
(* nodes are deleted in between.                                           *)

DailyBegin == \E c \in Callers, date \in Dates : DailyLookup(c, date)

DailyEnd ==
    \E c \in Callers :
        /\ callers[c].existing # None \/ issued < MaxNodes
        /\ DailyFinish(c)

DailyDelete == \E n \in NodeIds : DeleteNode(n)

DailyNext == DailyBegin \/ DailyEnd \/ DailyDelete

SpecDaily == Init /\ [][DailyNext]_vars

\* C12: for one caller, a call of get_or_create_daily_note for a date and
\* a second call for the same date both succeed and return the same id, the
\* second call stores nothing, and when no row matched the date before the
\* first call exactly one row matches it afterwards.
C12_DailyIdempotent ==
    \A date \in Dates :
        LET r1 == get_or_create_daily_note(nodes, date, issued + 1, Now)
            r2 == get_or_create_daily_note(r1.nodes, date, issued + 2, Now + 1)
        IN  /\ r1.kind = OkKind
            /\ r2.kind = OkKind
            /\ r2.id = r1.id
            /\ ~r2.created
            /\ r2.nodes = r1.nodes
            /\ DailyRows(nodes, date) = {} => DailyRows(r2.nodes, date) = {r1.id}

\* C12 witness: a later call has looked the date up and found the one row
\* that an earlier call created for it.
C12_Witness ==
    \E c \in Callers :
        /\ callers[c].pc = "looked"
        /\ callers[c].existing # None
        /\ DailyRows(nodes, callers[c].date) = { Unwrap(callers[c].existing) }
        /\ nodes[Unwrap(callers[c].existing)].content = DailyTitle(callers[c].date)

\* C13: lookup and creation are two steps.  A row for a date that already
\* has one is added only by the second step of a caller whose lookup had
\* found none, and a date never has more rows than there are callers; two
\* rows for one date are reached when both lookups run before either
\* creation.
C13_DuplicateOnlyByStaleLookup ==
    /\ [](\A date \in Dates : Cardinality(DailyRows(nodes, date)) <= NumCallers)
    /\ [][ \A date \in Dates :
             ( /\ DailyRows(nodes, date) # {}
               /\ DailyRows(nodes', date) \ DailyRows(nodes, date) # {} )
             => \E c \in Callers :
                    /\ callers[c].pc = "looked"
                    /\ callers[c].date = date
                    /\ callers[c].existing = None
                    /\ callers'[c] = Idle ]_vars

\* C13 witness: both calls have returned and two rows hold the title of
\* the same date.
C13_Witness ==
    \E date \in Dates :
        /\ \A c \in Callers : callers[c] = Idle
        /\ Cardinality({ n \in Ids(nodes) : nodes[n].content = DailyTitle(date) }) = 2

-----------------------------------------------------------------------------
(* The rows of the tree under one caller, without the link index: nodes of *)
(* one content created under any parent, partial updates, moves and        *)
(* deletions.                                                              *)

\* The requests a caller creates nodes with.
CreateRequests ==
    { CreateNodeRequest(Txt_P, p, None, None, None) : p \in ParentChoices }
    \cup { CreateNodeRequest(Txt_P, None, Some(1), Some(Props1), Some(Tags1)) }

\* The nodes this specification stores: one fewer than the ids.
MaxRowNodes == MaxNodes - 1

RowCreate ==
    /\ issued < MaxRowNodes
    /\ \E request \in CreateRequests : CreateNode(request)

RowUpdate ==
    /\ Rewrites < MaxRewrites
    /\ \E n \in NodeIds, request \in UpdateRequests : UpdateNode(n, request)

RowMove ==
    /\ Rewrites < MaxRewrites
    /\ \E n \in NodeIds, p \in ParentChoices, o \in OrderChoices : MoveNode(n, p, o)

RowDelete == \E n \in NodeIds : DeleteNode(n)

RowNext == RowCreate \/ RowUpdate \/ RowMove \/ RowDelete

SpecRows == Init /\ [][RowNext]_vars

\* The value of an optional field of a request, or a default.
OrElse(o, default) == IF o = None THEN default ELSE Unwrap(o)

\* C14: create followed by get of the returned id yields the created node
\* in every field: the content, parent, properties and tags of the request
\* (empty when not given), order 0 when no order was given, both
\* timestamps the time of the call, the default user, version 1 and no
\* children.
C14_CreateGetRoundTrip ==
    \A request \in CreateRequests :
        LET r == create_node(nodes, issued + 1, Now, request)
        IN  r.kind = OkKind
            => LET g == GetNode(r.nodes, r.id)
               IN  /\ g.kind = OkKind
                   /\ g.node = r.node
                   /\ g.node.id = r.id
                   /\ g.node.content = request.content
                   /\ g.node.parent_id = request.parent_id
                   /\ g.node.order = OrElse(request.order, 0)
                   /\ g.node.properties = OrElse(request.properties, {})
                   /\ g.node.tags = OrElse(request.tags, <<>>)
                   /\ g.node.created_at = Now
                   /\ g.node.updated_at = Now
                   /\ g.node.created_by = DEFAULT_USER
                   /\ g.node.version = 1
                   /\ g.node.children = <<>>

\* C14 witness: two created nodes are stored and read back, one created
\* with no order, properties or tags and one created with all of them.
C14_Witness ==
    \E n \in Ids(nodes), m \in Ids(nodes) :
        /\ NodeOf(nodes, n).version = 1
        /\ NodeOf(nodes, n).order = 0
        /\ NodeOf(nodes, n).properties = {}
        /\ NodeOf(nodes, n).tags = <<>>
        /\ NodeOf(nodes, m).version = 1
        /\ NodeOf(nodes, m).order = 1
        /\ NodeOf(nodes, m).properties = Props1
        /\ NodeOf(nodes, m).tags = Tags1

\* C15: a successful update changes, among content, properties, tags,
\* parent_id and order, only the fields present in the request; the absent
\* fields, id, created_at and created_by keep their values, no row is added
\* or removed and no other row is changed.
C15_UpdateFrame ==
    \A id \in Ids(nodes), request \in UpdateRequests :
        LET r   == update_node(nodes, id, request, Now)
            old == NodeOf(nodes, id)
        IN  r.kind = OkKind
            => /\ Ids(r.nodes) = Ids(nodes)
               /\ \A m \in Ids(nodes) \ {id} : r.nodes[m] = nodes[m]
               /\ LET new == NodeOf(r.nodes, id)
                  IN  /\ new.id = old.id
                      /\ new.created_at = old.created_at
                      /\ new.created_by = old.created_by
                      /\ new.content = OrElse(request.content, old.content)
                      /\ new.parent_id = IF request.parent_id = None THEN old.parent_id
                                         ELSE request.parent_id
                      /\ new.order = OrElse(request.order, old.order)
                      /\ new.properties = OrElse(request.properties, old.properties)
                      /\ new.tags = OrElse(request.tags, old.tags)

\* C15 witness: a node created with no properties and order 0 has been
\* updated once, with properties and tags only.
C15_Witness ==
    \E n \in Ids(nodes) :
        /\ NodeOf(nodes, n).version = 2
        /\ NodeOf(nodes, n).properties = Props1
        /\ NodeOf(nodes, n).tags = Tags1
        /\ NodeOf(nodes, n).order = 0
        /\ NodeOf(nodes, n).updated_at > NodeOf(nodes, n).created_at

\* C16: get and update of an id that matches no row fail with NotFound and
\* leave the store as it was.
C16_MissingIsNotFound ==
    \A id \in NodeIds \ Ids(nodes) :
        /\ GetNode(nodes, id).kind = NotFound
        /\ \A request \in UpdateRequests :
               /\ update_node(nodes, id, request, Now).kind = NotFound
               /\ update_node(nodes, id, request, Now).nodes = nodes

\* C17: delete of an id that matches no row fails with NotFound and leaves
\* the store as it was.
C17_DeleteMissingFails ==
    \A id \in NodeIds \ Ids(nodes) :
        LET r == delete_node(nodes, node_links, id)
        IN  /\ r.kind = NotFound
            /\ r.nodes = nodes
            /\ r.links = node_links

\* C18: after a successful move the node has the new parent and the new
\* order, its version is one higher, its content, properties and tags are
\* unchanged, and no other row is changed.
C18_MoveFrame ==
    \A id \in Ids(nodes), p \in ParentChoices, o \in OrderChoices :
        LET r   == move_node(nodes, id, p, o, Now)
            old == NodeOf(nodes, id)
        IN  r.kind = OkKind
            => /\ Ids(r.nodes) = Ids(nodes)
               /\ \A m \in Ids(nodes) \ {id} : r.nodes[m] = nodes[m]
               /\ LET new == NodeOf(r.nodes, id)
                  IN  /\ new.parent_id = p
                      /\ new.order = o
                      /\ new.version = old.version + 1
                      /\ new.content = old.content
                      /\ new.properties = old.properties
                      /\ new.tags = old.tags

\* C18 witness: a node has been moved once, under a node created after
\* it and to order 1.
C18_Witness ==
    \E n \in Ids(nodes), m \in Ids(nodes) :
        /\ n < m
        /\ nodes[n].parent_id = Some(m)
        /\ nodes[n].order_index = 1
        /\ nodes[n].version = 2

\* C19: in every reachable state, a parent_id that is present is the id
\* of a stored node.
C19_NoOrphan ==
    \A n \in Ids(nodes) :
        nodes[n].parent_id # None => Unwrap(nodes[n].parent_id) \in Ids(nodes)

\* C19 witness: a node has been deleted and a stored node has a parent.
C19_Witness ==
    /\ issued > Cardinality(Ids(nodes))
    /\ \E n \in Ids(nodes) : nodes[n].parent_id # None

\* C20: move and create with a parent id that matches no stored node fail
\* with an error and leave every row as it was; no row is added.
C20_MissingParentFails ==
    \A p \in NodeIds \ Ids(nodes) :
        /\ \A id \in Ids(nodes), o \in OrderChoices :
               LET r == move_node(nodes, id, Some(p), o, Now)
               IN  r.kind = QueryFailed /\ r.nodes = nodes
        /\ LET r == create_node(nodes, issued + 1, Now,
                                CreateNodeRequest(Txt_P, Some(p), None, None, None))
           IN  r.kind = QueryFailed /\ r.nodes = nodes

\* C20 witness: two stored nodes are siblings and some id is the id of
\* no stored node.
C20_Witness ==
    \E p \in NodeIds \ Ids(nodes), n \in Ids(nodes), m \in Ids(nodes) :
        /\ n # m
        /\ nodes[n].parent_id = nodes[m].parent_id

-----------------------------------------------------------------------------
(* Listings: the children of a node, the roots, the subtree.               *)

\* The elements of a sequence.
Range(s) == { s[i] : i \in 1..Len(s) }

\* No element occurs twice.
NoRepeat(s) == \A i \in 1..Len(s), j \in 1..Len(s) : s[i] = s[j] => i = j

\* C21: in every reachable state, the children list get(id) returns holds
\* exactly the ids of the stored nodes whose parent_id is id, each once.
C21_ChildrenDerived ==
    \A id \in Ids(nodes) :
        LET r == GetNode(nodes, id)
        IN  /\ r.kind = OkKind
            /\ NoRepeat(r.node.children)
            /\ Range(r.node.children) =
                   { c \in Ids(nodes) : nodes[c].parent_id = Some(id) }

\* C21 witness: after a move or an update, one stored node has a child
\* and another stored node has none.
C21_Witness ==
    /\ Rewrites > 0
    /\ \E id \in Ids(nodes), m \in Ids(nodes) :
           /\ GetNode(nodes, id).node.children # <<>>
           /\ GetNode(nodes, m).node.children = <<>>

\* Sorted by order ascending, equal orders by created_at ascending.
SortedSiblings(tbl, ids) ==
    \A i \in 1..Len(ids), j \in 1..Len(ids) :
        i < j =>
            \/ tbl[ids[i]].order_index < tbl[ids[j]].order_index
            \/ /\ tbl[ids[i]].order_index = tbl[ids[j]].order_index
               /\ tbl[ids[i]].created_at <= tbl[ids[j]].created_at

\* The ids of the nodes at the top of a list of subtrees.
TopIds(subs) == [ i \in 1..Len(subs) |-> subs[i].node.id ]

\* Every list of children in a subtree is sorted.
RECURSIVE TreeSorted(_, _)
TreeSorted(tbl, t) ==
    /\ SortedSiblings(tbl, t.node.children)
    /\ SortedSiblings(tbl, TopIds(t.child_nodes))
    /\ \A i \in 1..Len(t.child_nodes) : TreeSorted(tbl, t.child_nodes[i])

\* C22: every sibling listing is sorted by order ascending and, among equal
\* orders, by created_at ascending: the children of get, the children at
\* every level of get_with_subtree, the roots of list_roots and the children
\* of each of them.
C22_SiblingsSorted ==
    /\ \A id \in Ids(nodes) :
           /\ SortedSiblings(nodes, GetNode(nodes, id).node.children)
           /\ LET r == get_node_with_children(nodes, id)
              IN  r.kind = OkKind => TreeSorted(nodes, r.tree)
    /\ \A scan \in ScanChoices :
           LET roots == get_root_nodes(nodes, scan)
           IN  /\ SortedSiblings(nodes, [ i \in 1..Len(roots) |-> roots[i].id ])
               /\ \A i \in 1..Len(roots) :
                      SortedSiblings(nodes, roots[i].children)

\* The ids of the nodes of a subtree, parents before children.
RECURSIVE TreeIds(_)
RECURSIVE ForestIds(_, _)
TreeIds(t) == <<t.node.id>> \o ForestIds(t.child_nodes, 1)

ForestIds(subs, i) ==
    IF i > Len(subs) THEN <<>>
    ELSE TreeIds(subs[i]) \o ForestIds(subs, i + 1)

\* Every node of a subtree below its top is nested under the node that its
\* parent_id names.
RECURSIVE WellNested(_, _)
WellNested(tbl, t) ==
    \A i \in 1..Len(t.child_nodes) :
        /\ tbl[t.child_nodes[i].node.id].parent_id = Some(t.node.id)
        /\ WellNested(tbl, t.child_nodes[i])

\* The nodes from which following parent_id reaches id, and id itself.
RECURSIVE HasAncestor(_, _, _, _)
HasAncestor(tbl, n, id, seen) ==
    IF n = id THEN TRUE
    ELSE IF n \in seen \/ tbl[n].parent_id = None THEN FALSE
    ELSE HasAncestor(tbl, Unwrap(tbl[n].parent_id), id, seen \cup {n})

Descendants(tbl, id) == { n \in Ids(tbl) : HasAncestor(tbl, n, id, {}) }

\* C23: get_with_subtree(id) on a stored node returns a tree that holds id
\* and every descendant of id exactly once, each nested under its actual
\* parent, and no node that is not a descendant of id.
C23_SubtreeExact ==
    \A id \in Ids(nodes) :
        LET r == get_node_with_children(nodes, id)
        IN  /\ r.kind = OkKind
            /\ r.tree.node.id = id
            /\ NoRepeat(TreeIds(r.tree))
            /\ Range(TreeIds(r.tree)) = Descendants(nodes, id)
            /\ WellNested(nodes, r.tree)

\* The same on the states whose parent relation has no cycle.
SubtreeExactWithoutCycle ==
    (\A n \in Ids(nodes) : ReachesRoot(nodes, n, {})) =>
        \A id \in Ids(nodes) :
            LET r == get_node_with_children(nodes, id)
            IN  /\ r.kind = OkKind
                /\ r.tree.node.id = id
                /\ NoRepeat(TreeIds(r.tree))
                /\ Range(TreeIds(r.tree)) = Descendants(nodes, id)
                /\ WellNested(nodes, r.tree)

-----------------------------------------------------------------------------
(* Transactions on the edge table: root nodes, and transaction bodies of   *)
(* one or two statements over stored and missing nodes.                    *)

\* The edges the table is let grow to.
MaxEdges == 3

\* The statements of a body: the DELETE of the edges of a source and the
\* INSERT OR IGNORE of an edge.
Statements ==
    { DeleteStmt(s) : s \in NodeIds }
    \cup { InsertStmt(s, t) : s \in NodeIds, t \in NodeIds }

Bodies ==
    { <<a>> : a \in Statements }
    \cup { <<a, b>> : a \in Statements, b \in Statements }

TxCreate ==
    /\ issued < MaxNodes
    /\ CreateNode(CreateNodeRequest(Txt_P, None, None, None, None))

TxRun ==
    \E stmts \in Bodies :
        /\ WithTransaction(stmts)
        /\ Cardinality(node_links') <= MaxEdges

TxNext == TxCreate \/ TxRun

SpecTx == Init /\ [][TxNext]_vars

\* C24: with_transaction(op) keeps the writes of op only if op returns
\* success; if op returns an error, the store is as it was before the
\* call, whatever op had written.
C24_CommitOnlyOnSuccess ==
    \A stmts \in Bodies :
        LET r == RunStatements(nodes, node_links, stmts, 1)
            w == with_transaction(node_links, r)
        IN  /\ r.ok => w.kind = OkKind /\ w.links = r.links
            /\ ~r.ok => w.kind # OkKind /\ w.links = node_links

\* C24 witness: a body changes the edge table with its first statement
\* and fails on its second.
C24_Witness ==
    \E stmts \in Bodies :
        LET r == RunStatements(nodes, node_links, stmts, 1)
        IN  ~r.ok /\ r.links # node_links

-----------------------------------------------------------------------------
(* The connection pool under max_connections + 1 threads.                  *)

PoolNext ==
    \/ MeCall \/ MeLen \/ MeWake \/ MeFinish
    \/ OtherCall \/ OtherLen \/ OtherWake \/ OtherFinish

SpecPool == Init /\ [][PoolNext]_vars

\* The connections that are open: those in the pool and those that a
\* thread holds.
OpenConnections ==
    connection_pool + others[At("op", 0)] + (IF me.pc = "op" THEN 1 ELSE 0)

\* The threads are scheduled: a thread in its acquisition loop takes its
\* next step.
FairSpecPool == SpecPool /\ WF_vars(MeLen) /\ WF_vars(MeWake)

\* C25: with_connection(op) puts the connection it checked out back into
\* the pool whether op returns success or an error: run with no other
\* thread in between, it ends with at least as many connections in the
\* pool as before; and among concurrent threads, the step that ends the
\* operation adds one connection to the pool.
C25_ConnectionReturned ==
    /\ [](\A ok \in BOOLEAN :
             LET r == with_connection(connection_pool, ok)
             IN  /\ r.local = Returned(ok)
                 /\ r.pool >= connection_pool)
    /\ [][me.pc = "op" /\ me'.pc # "op" =>
              connection_pool' = connection_pool + 1]_vars

\* C25 witness: the operation of the tracked thread has returned an error
\* while other threads hold connections, and the pool is not empty.
C25_Witness ==
    /\ me = Resting(QueryFailed)
    /\ others[At("op", 0)] > 0
    /\ connection_pool > 0

\* C26: the open connections, checked out or in the pool, are never more
\* than max_connections.
C26_PoolBounded == OpenConnections <= max_connections

\* C27: an acquisition that does not obtain a connection ends with the
\* connection-failure error once the pool timeout has gone by: a thread in
\* the acquisition loop comes to hold a connection or to return
\* DatabaseConnectionFailed.
C27_AcquisitionEnds ==
    (me.pc \in { "len", "asleep" }) ~>
        (me.pc = "op" \/ me = Resting(ConnectionFailed))

\* C27 witness: the acquisition of the tracked thread has timed out.
C27_Witness == me = Resting(ConnectionFailed)

-----------------------------------------------------------------------------
(* Initialization: a database file that starts without tables, the service *)
(* constructed on it any number of times, nodes created and resynchronized *)
(* in between.                                                             *)

\* A new database file.
FreshInit ==
    /\ nodes = << >>
    /\ node_links = {}
    /\ issued = 0
    /\ clock = 0
    /\ synced = [ n \in NodeIds |-> {} ]
    /\ callers = [ c \in Callers |-> Idle ]
    /\ connection_pool = 0
    /\ me = Resting("none")
    /\ others = [ l \in OtherLocals |-> 0 ]
    /\ tables = {}
    /\ users = {}
    /\ update_tx = None
    /\ delete_calls = << >>
    /\ commands = [ c \in Callers |-> None ]
    /\ connection = Unlocked
    /\ page_calls = [ t \in Callers |-> PageIdle("none") ]

BootCreate ==
    /\ "nodes" \in tables
    /\ issued < MaxNodes
    /\ \E c \in TreeContents, p \in ParentChoices :
           CreateNode(CreateNodeRequest(c, p, None, None, None))

BootResync ==
    /\ "node_links" \in tables
    /\ \E n \in NodeIds : UpdateLinksForNode(n)

BootNext == InitDatabase \/ BootCreate \/ BootResync

SpecBoot == FreshInit /\ [][BootNext]_vars

\* C28: schema initialization followed by the default-user bootstrap, run
\* once or twice in a row on a new or an initialized store, succeeds each
\* time and leaves exactly one row in the users table; the node rows and
\* the edge rows are as before.
C28_InitIdempotent ==
    LET db == Database(tables, nodes, node_links, users)
        first == init_database(db)
        second == init_database(first.db)
    IN  /\ first.kind = OkKind /\ second.kind = OkKind
        /\ Cardinality(first.db.users) = 1
        /\ second.db = first.db
        /\ first.db.nodes = nodes /\ first.db.node_links = node_links

\* C28 witness: the store is initialized and holds nodes and an edge.
C28_Witness ==
    /\ tables = AllTables
    /\ users = { DEFAULT_USER }
    /\ node_links # {}
    /\ Cardinality(Ids(nodes)) > 1

-----------------------------------------------------------------------------
(* update_node statement by statement, with creations by other callers in  *)
(* between; every state is what a reader on another connection sees.       *)

UpdCreate ==
    /\ issued < MaxRowNodes
    /\ IF update_tx = None THEN TRUE ELSE ~Unwrap(update_tx).wrote
    /\ \E request \in CreateRequests : CreateNode(request)

UpdBegin ==
    /\ Rewrites < MaxRewrites
    /\ \E n \in NodeIds, request \in UpdateRequests : UpdateBegin(n, request)

UpdNext == UpdCreate \/ UpdBegin \/ UpdateStatement \/ UpdateCommit

SpecUpdate == Init /\ [][UpdNext]_vars

\* C29: a get that runs while an update is in progress sees none of the
\* changes of the update: a statement of the update changes the result of
\* no get.  The end of the update brings all its field changes and the
\* version increment at once, or none of them: no get sees some of them
\* without the others.
C29_UpdateAtomic ==
    /\ [][update_tx # None /\ update_tx' # None /\ update_tx' # update_tx =>
              \A n \in NodeIds : GetNode(nodes', n) = GetNode(nodes, n)]_vars
    /\ [][update_tx # None /\ update_tx' = None
              /\ Unwrap(update_tx).node_id \in Ids(nodes) =>
              LET t == Unwrap(update_tx)
              IN  \/ nodes' = nodes
                  \/ nodes' = [ nodes EXCEPT ![t.node_id] =
                                  ApplyRequest(@, t.request, t.now) ]]_vars

\* C29 witness: an update has executed one of its statements and has
\* another one to execute.
C29_Witness ==
    /\ update_tx # None
    /\ LET t == Unwrap(update_tx)
       IN  /\ t.wrote
           /\ t.node_id \in Ids(nodes)
           /\ t.view[t.node_id] # nodes[t.node_id]
           /\ NextStatement(t.request, t.next) < Len(UpdateStatements)

-----------------------------------------------------------------------------
(* delete_node call by call, on trees with edges; every state is what a    *)
(* reader on another connection sees.                                      *)

DelCreate ==
    /\ delete_calls = << >>
    /\ issued < MaxNodes
    /\ \E c \in TreeContents, p \in ParentChoices :
           CreateNode(CreateNodeRequest(c, p, None, None, None))

DelResync ==
    /\ delete_calls = << >>
    /\ \E n \in NodeIds : UpdateLinksForNode(n)

DelBegin == \E n \in NodeIds : DeleteBegin(n)

DelNext ==
    DelCreate \/ DelResync \/ DelBegin \/ DeleteDescend \/ DeleteSelf
        \/ DeleteFail

SpecDelete == Init /\ [][DelNext]_vars

\* C30: delete(id) is all-or-nothing: while a delete runs, and when it
\* ends by a failure, the store is either as it was when the delete
\* began, or it is without the node, all its descendants and all their
\* incident edges; no state with only part of the subtree deleted is
\* committed.
C30_DeleteAllOrNothing ==
    [][delete_calls # << >> =>
          LET f == delete_calls[1]
              gone == SqlDeleteNode(f.before, f.node_id)
          IN  \/ nodes' = f.before.nodes /\ node_links' = f.before.links
              \/ nodes' = gone.nodes /\ node_links' = gone.links]_vars

-----------------------------------------------------------------------------
(* The queries of the link service. *)

\* The ids of a list of Nodes.
IdsOf(list) == [ i \in 1..Len(list) |-> list[i].id ]

\* C31: backlinks(node_id) returns exactly the stored nodes S such that the
\* edge (S, node_id) is in the edge table, each once and as the row holds
\* it; with no such edge it returns the empty list and no error.
C31_BacklinksExact ==
    \A n \in NodeIds :
        LET r == get_linked_references(nodes, node_links, n)
        IN  /\ r.kind = OkKind
            /\ NoRepeat(IdsOf(r.nodes))
            /\ Range(IdsOf(r.nodes))
                   = { S \in Ids(nodes) : <<S, n>> \in node_links }
            /\ \A i \in 1..Len(r.nodes) :
                   r.nodes[i] = LinkNode(nodes, r.nodes[i].id)
            /\ (InEdges(node_links, n) = {} => r.nodes = <<>>)

\* C31 witness: a stored node is the target of the edges of two sources,
\* and another stored node is the target of no edge.
C31_Witness ==
    \E T \in Ids(nodes), U \in Ids(nodes) :
        /\ Cardinality(InEdges(node_links, T)) = 2
        /\ InEdges(node_links, U) = {}

\* The text t occurs in the text s as a substring.
Contains(s, t) ==
    \E i \in 0..(Len(s) - Len(t)) : SubSeq(s, i + 1, i + Len(t)) = t

\* The probe texts a caller passes: a title, the title in lower case, and
\* the characters that LIKE reads as wildcards.
Probes == { Txt_P, <<"p">>, <<"x">>, <<"_">>, <<"%">> }

\* C32: unlinked_mentions(node_id, probe_text) returns exactly the nodes
\* whose content contains probe_text as a substring, with or without edges,
\* the node node_id included when its own content contains probe_text.
C32_UnlinkedExact ==
    \A n \in NodeIds, probe \in Probes :
        LET r == get_unlinked_references(nodes, n, probe)
        IN  /\ r.kind = OkKind
            /\ NoRepeat(IdsOf(r.nodes))
            /\ Range(IdsOf(r.nodes))
                   = { m \in Ids(nodes) : Contains(nodes[m].content, probe) }

-----------------------------------------------------------------------------
(* The repository and the link index side by side: creations under any     *)
(* parent, updates of the content and of the parent, moves, deletions and  *)
(* resynchronizations.                                                     *)

EdgeRequests ==
    { [ EmptyRequest EXCEPT !.content = Some(c) ] : c \in { Ref_P, Txt_Px } }
    \cup { [ EmptyRequest EXCEPT !.parent_id = Some(p) ] : p \in NodeIds }

EdgeCreate ==
    /\ issued < MaxRowNodes
    /\ \E c \in TreeContents, p \in ParentChoices :
           CreateNode(CreateNodeRequest(c, p, None, None, None))

EdgeUpdate ==
    /\ Rewrites < MaxRewrites
    /\ \E n \in NodeIds, request \in EdgeRequests : UpdateNode(n, request)

EdgeMove ==
    /\ Rewrites < MaxRewrites
    /\ \E n \in NodeIds, p \in ParentChoices : MoveNode(n, p, 0)

EdgeDelete == \E n \in NodeIds : DeleteNode(n)

EdgeResync == \E n \in NodeIds : UpdateLinksForNode(n)

EdgeNext == EdgeCreate \/ EdgeUpdate \/ EdgeMove \/ EdgeDelete \/ EdgeResync

SpecEdges == Init /\ [][EdgeNext]_vars

\* C33: create, update and move never add or remove a link edge: a step
\* that stores a row or rewrites one leaves the edge table as it is, and
\* the edge table changes only in a resynchronization or by the cascade of
\* a deletion, which removes the edges of the removed rows and no other.
\* After a content update the edges are those of the previous content.
C33_EdgesOnlyByResync ==
    /\ [][Ids(nodes) \subseteq Ids(nodes') /\ nodes' # nodes =>
              node_links' = node_links]_vars
    /\ [][node_links' # node_links =>
              \/ \E n \in NodeIds : UpdateLinksForNode(n)
              \/ /\ Ids(nodes') # Ids(nodes)
                 /\ Ids(nodes') \subseteq Ids(nodes)
                 /\ node_links' = { e \in node_links :
                                      e[1] \in Ids(nodes') /\ e[2] \in Ids(nodes') }]_vars

\* C33 witness: the content of S has been updated since its last
\* resynchronization, and S holds the edge of its previous content, which
\* its content now does not resolve to.
C33_Witness ==
    \E S \in Ids(nodes), T \in Ids(nodes) :
        /\ nodes[S].version > 1
        /\ <<S, T>> \in node_links
        /\ ResolvedTargets(nodes, nodes[S].content) = {}

-----------------------------------------------------------------------------
(* Daily notes next to journal nodes: root nodes whose content is the date *)
(* and whose tags hold "#Journal", as a caller creates them.               *)

JournalTag == "#Journal"

JournalRequest(date) ==
    CreateNodeRequest(date, None, Some(0), None, Some(<<JournalTag>>))

JournalCreate ==
    /\ issued < MaxNodes
    /\ \E date \in Dates : CreateNode(JournalRequest(date))

JournalNext == JournalCreate \/ DailyBegin \/ DailyEnd \/ DailyDelete

SpecJournal == Init /\ [][JournalNext]_vars

\* The root nodes whose content equals the date string.
JournalRows(tbl, date) ==
    { n \in Ids(tbl) : tbl[n].parent_id = None /\ tbl[n].content = date }

\* C34: when a root node whose content equals the date string exists,
\* get_daily_note(date) and get_or_create_daily_note(date) return such a
\* node, and get_or_create_daily_note creates no row.
C34_ExistingJournalReturned ==
    \A date \in Dates :
        JournalRows(nodes, date) # {} =>
            LET g == get_daily_note(nodes, date)
                r == get_or_create_daily_note(nodes, date, issued + 1, Now)
            IN  /\ g.kind = OkKind
                /\ g.id \in JournalRows(nodes, date)
                /\ r.kind = OkKind
                /\ r.id \in JournalRows(nodes, date)
                /\ ~r.created
                /\ r.nodes = nodes

\* C35: when no daily note exists for the date, get_or_create_daily_note
\* creates a root node whose content equals the date string and whose tags
\* contain "#Journal".
C35_NewJournalCreated ==
    \A date \in Dates :
        (JournalRows(nodes, date) = {} /\ DailyRows(nodes, date) = {}) =>
            LET r == get_or_create_daily_note(nodes, date, issued + 1, Now)
            IN  /\ r.kind = OkKind
                /\ r.created
                /\ r.id \notin Ids(nodes)
                /\ r.nodes[r.id].parent_id = None
                /\ r.nodes[r.id].content = date
                /\ JournalTag \in Range(NodeOf(r.nodes, r.id).tags)

-----------------------------------------------------------------------------
(* Termination of the recursive reads and deletions, stated over Spec.     *)

\* C36: in every state reachable by create, update, move and delete,
\* get_with_subtree(id) and delete(id) return for every stored id: the
\* recursion over the children comes back to no node it is already in.
C36_RecursionTerminates ==
    \A id \in Ids(nodes) :
        /\ get_node_with_children(nodes, id).kind # NoReturn
        /\ delete_node(nodes, node_links, id).kind # NoReturn

-----------------------------------------------------------------------------
(* The repository and the link index with callers that resynchronize node  *)
(* values they hold: the value of a stored row, of a row that has been     *)
(* rewritten since, or of a row that has been deleted.                     *)

StaleResync ==
    \E n \in 1..issued, c \in TreeContents : UpdateLinksForValue(n, c)

\* Updates of the content; the parent is changed by the moves.
StaleUpdate ==
    /\ Rewrites < MaxRewrites
    /\ \E n \in NodeIds, c \in { Ref_P, Txt_Px } :
           UpdateNode(n, [ EmptyRequest EXCEPT !.content = Some(c) ])

StaleNext == EdgeCreate \/ StaleUpdate \/ EdgeMove \/ EdgeDelete \/ StaleResync

SpecStale == Init /\ [][StaleNext]_vars

\* Both endpoints of every edge are ids of stored nodes.
EndpointsStored(tbl, links) ==
    \A e \in links : e[1] \in Ids(tbl) /\ e[2] \in Ids(tbl)

\* C37: in every reachable state both endpoints of every link edge are ids
\* of stored nodes, and a resynchronization with a node value whose row
\* has been deleted leaves it so.
C37_EdgesBetweenStoredNodes ==
    /\ EndpointsStored(nodes, node_links)
    /\ \A n \in (1..issued) \ Ids(nodes), c \in TreeContents :
           EndpointsStored(nodes,
               update_links_for_node(nodes, node_links, NodeValue(n, c)).links)

\* C37 witness: edges are stored, and the row of a node value whose
\* reference resolves to a stored node has been deleted.
C37_Witness ==
    /\ node_links # {}
    /\ \E n \in (1..issued) \ Ids(nodes) : ResolvedTargets(nodes, Ref_P) # {}


-----------------------------------------------------------------------------
(* The update_node command run by several callers: update_node of the      *)
(* repository, then update_links_for_node with the node that it returned.  *)
(* The two awaits of one command are two steps, and steps of other         *)
(* commands come in between.                                               *)

\* The first await of the command.  On Ok the caller holds the node that
\* update_node returned; on an error the command ends.
CommandUpdate(c, node_id, request) ==
    /\ commands[c] = None
    /\ LET r == update_node(nodes, node_id, request, Now)
       IN  /\ nodes' = r.nodes
           /\ clock' = IF r.wrote THEN Now ELSE clock
           /\ commands' =
                [ commands EXCEPT ![c] =
                    IF r.kind = OkKind
                    THEN Some(NodeValue(node_id, r.nodes[node_id].content))
                    ELSE None ]
    /\ UNCHANGED <<node_links, issued, synced, callers>>
    /\ UNCHANGED <<poolVars, bootVars, txVars, pageVars>>

\* The second await of the command: the resynchronization with the node
\* the caller holds, after which the command has completed.
CommandResync(c) ==
    /\ commands[c] # None
    /\ LET node == Unwrap(commands[c])
           r == update_links_for_node(nodes, node_links, node)
       IN  /\ node_links' = r.links
           /\ synced' = IF r.kind = OkKind
                        THEN [ synced EXCEPT ![node.id] =
                                 ResolvedTargets(nodes, node.content) ]
                        ELSE synced
    /\ commands' = [ commands EXCEPT ![c] = None ]
    /\ UNCHANGED <<nodes, issued, clock, callers>>
    /\ UNCHANGED <<poolVars, bootVars, txVars, pageVars>>

\* Every caller has one content update to send.
CmdUpdate ==
    /\ Rewrites < NumCallers
    /\ \E c \in Callers, n \in NodeIds, content \in { Ref_P, Txt_Px } :
           CommandUpdate(c, n, [ EmptyRequest EXCEPT !.content = Some(content) ])

CmdResync == \E c \in Callers : CommandResync(c)

CmdNext == EdgeCreate \/ CmdUpdate \/ CmdResync

SpecCommands == Init /\ [][CmdNext]_vars

\* C38: two callers that run the update_node command on the same node
\* concurrently cannot leave the index stale: at the step that completes a
\* command while no other command is pending, the outgoing edges of the
\* node are those resolved from the content it has stored.
C38_IndexNotStale ==
    [][\A c \in Callers :
          ( /\ commands[c] # None
            /\ commands'[c] = None
            /\ \A d \in Callers \ { c } : commands[d] = None )
          => LET n == Unwrap(commands[c]).id
             IN  Targets(node_links', n)
                   = ResolvedTargets(nodes', nodes'[n].content)]_vars


-----------------------------------------------------------------------------
(* The page and block service called by several threads.                   *)

PageIds == { 1 }

\* A thread calls a method: it stands at the lock() the method begins
\* with.
PageCall(t) ==
    /\ page_calls[t].pc = "idle"
    /\ \E op \in PageOps, id \in PageIds, empty \in BOOLEAN :
           page_calls' = [ page_calls EXCEPT ![t] = PageAt("lock", op, id, empty) ]
    /\ UNCHANGED connection
    /\ UNCHANGED <<storeVars, poolVars, bootVars, txVars, cmdVars>>

\* lock().unwrap() on a mutex that no thread holds: the thread gets the
\* guard, or panics on a poisoned mutex.
PageLock(t) ==
    /\ page_calls[t].pc = "lock"
    /\ connection.holder = None
    /\ IF connection.poisoned
       THEN /\ page_calls' = [ page_calls EXCEPT ![t].pc = "panicked" ]
            /\ UNCHANGED connection
       ELSE /\ page_calls' = [ page_calls EXCEPT ![t].pc = "held" ]
            /\ connection' = [ connection EXCEPT !.holder = Some(t) ]
    /\ UNCHANGED <<storeVars, poolVars, bootVars, txVars, cmdVars>>

\* The body with the guard: it returns, and the guard is dropped, or it
\* calls a method of the service and stands at that method's lock() with
\* its own guard alive.
PageBody(t) ==
    /\ page_calls[t].pc = "held"
    /\ LET b == PageBodyOf(connection, page_calls[t])
       IN  IF b.returned
           THEN /\ page_calls' = [ page_calls EXCEPT ![t] = PageIdle(b.result) ]
                /\ connection' = [ connection EXCEPT !.holder = None ]
           ELSE /\ page_calls' = [ page_calls EXCEPT ![t].pc = "relock" ]
                /\ UNCHANGED connection
    /\ UNCHANGED <<storeVars, poolVars, bootVars, txVars, cmdVars>>

\* lock() on a mutex that the thread itself holds.  What it does is left
\* unspecified by std::sync::Mutex except that it does not return: the
\* thread panics, and the unwinding drops its guard and poisons the
\* mutex, or it blocks for ever with the mutex locked.
PageRelock(t) ==
    /\ page_calls[t].pc = "relock"
    /\ \/ /\ page_calls' = [ page_calls EXCEPT ![t].pc = "panicked" ]
          /\ connection' = [ connection EXCEPT !.holder = None,
                                               !.poisoned = TRUE ]
       \/ /\ page_calls' = [ page_calls EXCEPT ![t].pc = "deadlocked" ]
          /\ UNCHANGED connection
    /\ UNCHANGED <<storeVars, poolVars, bootVars, txVars, cmdVars>>

PageNext ==
    \E t \in Callers : PageCall(t) \/ PageLock(t) \/ PageBody(t) \/ PageRelock(t)

SpecPages == Init /\ [][PageNext]_vars

\* C39: every page and block operation returns: none of create_page,
\* update_page, create_block, update_block and move_block comes to a
\* lock() of the connection mutex (through get_default_user_id, get_page
\* or get_block) while it holds the lock, so no call ends in a panic or
\* blocked on its own guard.
C39_NoRelockWhileHolding ==
    \A t \in Callers :
        /\ ~(page_calls[t].pc = "relock" /\ connection.holder = Some(t))
        /\ page_calls[t].pc \notin { "panicked", "deadlocked" }


-----------------------------------------------------------------------------
(* with_transaction on the pool: the tracked thread calls                  *)
(* with_transaction, the other threads with_connection.                    *)

\* How a with_transaction that has its connection goes on: conn.transaction()
\* fails, the operation fails, the commit fails, or the commit succeeds.
TxOutcomes == { "begin_fails", "op_fails", "commit_fails", "committed" }

\* The error kinds of AppError for the database.
DatabaseErrors == { QueryFailed, ConnectionFailed }

\* with_transaction after get_connection.  `conn.transaction()?` and
\* `tx.commit()?` return their error at once, and conn is dropped at the
\* end of the scope; after a rollback or a commit that succeeded
\* return_connection(conn) runs.  kind is the AppError that `?` converts
\* the rusqlite error to.
transaction_exit(pool, outcome, kind) ==
    CASE outcome = "begin_fails" -> [ local |-> Resting(kind), pool |-> pool ]
      [] outcome = "commit_fails" -> [ local |-> Resting(kind), pool |-> pool ]
      [] outcome = "op_fails" ->
           [ local |-> Returned(FALSE), pool |-> return_connection(pool, FALSE) ]
      [] outcome = "committed" ->
           [ local |-> Returned(TRUE), pool |-> return_connection(pool, TRUE) ]

\* The tracked thread ends its with_transaction.
MeTransaction ==
    /\ me.pc = "op"
    /\ \E outcome \in TxOutcomes, kind \in DatabaseErrors :
           LET r == transaction_exit(connection_pool, outcome, kind)
           IN  me' = r.local /\ connection_pool' = r.pool
    /\ UNCHANGED <<nonPoolVars, others>>

PoolTxNext ==
    \/ MeCall \/ MeLen \/ MeWake \/ MeTransaction
    \/ OtherCall \/ OtherLen \/ OtherWake \/ OtherFinish

SpecPoolTx == Init /\ [][PoolTxNext]_vars

\* C40: with_transaction returns the connection it checked out to the pool
\* on every exit path: the step in which the tracked thread leaves
\* with_transaction, whether the begin failed, the operation failed and
\* was rolled back, or the commit failed, puts one connection into the
\* pool.
C40_TransactionReturnsConnection ==
    [][me.pc = "op" /\ me'.pc = "idle"
          => connection_pool' = connection_pool + 1]_vars

=============================================================================
